---- MODULE Spec2Model ----
(***************************************************************************)
(* ASYCUDA XML converter (batch.py): the spreadsheet extractor, the        *)
(* document mapper, the serializer, and the /convert batch handler with    *)
(* its shared progress table.                                              *)
(*                                                                         *)
(* Python strings whose characters the code inspects (cell values, file    *)
(* names, element text) are sequences of one-character strings; tag names  *)
(* and column names, which the code only compares, are TLA+ strings.       *)
(***************************************************************************)
EXTENDS Integers, Sequences, FiniteSets, TLC

(***************************************************************************)
(* Bounds of the model.                                                    *)
(***************************************************************************)
\* item rows per sheet
MaxItems == 2

\* files uploaded in one run, over all requests
MaxFiles == 2

\* /convert requests in one run
NumRequests == 2

(***************************************************************************)
(* Python str helpers.                                                     *)
(***************************************************************************)
EmptyStr == << >>

NanStr == <<"n","a","n">>

NoneStr == <<"N","o","n","e">>

UpperLetters == <<"A","B","C","D","E","F","G","H","I","J","K","L","M",
                  "N","O","P","Q","R","S","T","U","V","W","X","Y","Z">>

LowerLetters == <<"a","b","c","d","e","f","g","h","i","j","k","l","m",
                  "n","o","p","q","r","s","t","u","v","w","x","y","z">>

LowerChar(c) ==
  IF \E k \in 1..26 : UpperLetters[k] = c
  THEN LowerLetters[CHOOSE k \in 1..26 : UpperLetters[k] = c]
  ELSE c

\* str.lower()
Lower(s) == [k \in 1..Len(s) |-> LowerChar(s[k])]

\* str.endswith(suffix)
EndsWith(s, suffix) ==
  /\ Len(suffix) <= Len(s)
  /\ SubSeq(s, Len(s) - Len(suffix) + 1, Len(s)) = suffix

\* str.endswith((suffix, ...))
EndsWithAny(s, suffixes) == \E suffix \in suffixes : EndsWith(s, suffix)

\* str.rsplit('.', 1)[0]
RsplitDotHead(s) ==
  IF \E k \in 1..Len(s) : s[k] = "."
  THEN LET last == CHOOSE k \in 1..Len(s) :
                     /\ s[k] = "."
                     /\ \A j \in (k+1)..Len(s) : s[j] # "."
       IN  SubSeq(s, 1, last - 1)
  ELSE s

Whitespace == {" ", "\t", "\n", "\r", "\f"}

RECURSIVE LStrip(_)
LStrip(s) == IF s # << >> /\ Head(s) \in Whitespace THEN LStrip(Tail(s)) ELSE s

RECURSIVE RStrip(_)
RStrip(s) ==
  IF s # << >> /\ s[Len(s)] \in Whitespace THEN RStrip(SubSeq(s, 1, Len(s) - 1)) ELSE s

\* str.strip()
Strip(s) == RStrip(LStrip(s))

(***************************************************************************)
(* Python numbers.  A number is an int, a finite float n / 10^d kept in    *)
(* lowest decimal form, or one of the float specials inf, -inf, nan.       *)
(***************************************************************************)
DigitChars == <<"0","1","2","3","4","5","6","7","8","9">>

IsDigit(c) == \E k \in 1..10 : DigitChars[k] = c

DigitVal(c) == (CHOOSE k \in 1..10 : DigitChars[k] = c) - 1

RECURSIVE Pow10(_)
Pow10(k) == IF k = 0 THEN 1 ELSE 10 * Pow10(k - 1)

PyInt(n) == [k |-> "int", n |-> n, d |-> 0]

RECURSIVE PyFloat(_, _)
PyFloat(n, d) ==
  IF d > 0 /\ n % 10 = 0 THEN PyFloat(n \div 10, d - 1)
  ELSE [k |-> "float", n |-> n, d |-> d]

PyInf == [k |-> "inf", n |-> 0, d |-> 0]

PyNegInf == [k |-> "-inf", n |-> 0, d |-> 0]

PyNan == [k |-> "nan", n |-> 0, d |-> 0]

\* a + b
PyAdd(a, b) ==
  IF a.k = "int" /\ b.k = "int" THEN PyInt(a.n + b.n)
  ELSE IF a.k = "nan" \/ b.k = "nan" THEN PyNan
  ELSE IF a.k \in {"inf", "-inf"}
       THEN IF b.k \in {"inf", "-inf"} /\ b.k # a.k THEN PyNan ELSE a
  ELSE IF b.k \in {"inf", "-inf"} THEN b
  ELSE LET d == IF a.d > b.d THEN a.d ELSE b.d
       IN  PyFloat(a.n * Pow10(d - a.d) + b.n * Pow10(d - b.d), d)

RECURSIVE DigitsVal(_)
DigitsVal(s) == IF s = << >> THEN 0 ELSE DigitsVal(SubSeq(s, 1, Len(s) - 1)) * 10 + DigitVal(s[Len(s)])

AllDigits(s) == \A k \in 1..Len(s) : IsDigit(s[k])

\* float(s): [ok |-> FALSE] stands for ValueError
\* the first position of s holding one of chars, Len(s) + 1 if none
FirstIndex(s, chars) ==
  IF \E k \in 1..Len(s) : s[k] \in chars
  THEN CHOOSE k \in 1..Len(s) : s[k] \in chars /\ \A j \in 1..(k - 1) : s[j] \notin chars
  ELSE Len(s) + 1

\* the exponent after "e": [ok, val]; without exponent the value is 0
ParseExponent(expo, hasExp) ==
  LET expDigits == IF expo # << >> /\ Head(expo) \in {"+", "-"} THEN Tail(expo) ELSE expo
  IN  IF ~hasExp THEN [ok |-> TRUE, val |-> 0]
      ELSE IF expDigits # << >> /\ AllDigits(expDigits)
           THEN [ok |-> TRUE,
                 val |-> IF Head(expo) = "-" THEN 0 - DigitsVal(expDigits) ELSE DigitsVal(expDigits)]
           ELSE [ok |-> FALSE, val |-> 0]

\* digits "." digits with at least one digit, scaled by the exponent
ParseDigits(ipart, fpart, neg, exp) ==
  IF exp.ok /\ AllDigits(ipart) /\ AllDigits(fpart) /\ Len(ipart) + Len(fpart) > 0
  THEN [ok |-> TRUE,
        v |-> IF Len(fpart) - exp.val >= 0
              THEN PyFloat(IF neg THEN 0 - DigitsVal(ipart \o fpart) ELSE DigitsVal(ipart \o fpart),
                           Len(fpart) - exp.val)
              ELSE PyFloat((IF neg THEN 0 - DigitsVal(ipart \o fpart) ELSE DigitsVal(ipart \o fpart))
                             * Pow10(exp.val - Len(fpart)), 0)]
  ELSE [ok |-> FALSE, v |-> PyNan]

ParseMantissa(mant, dp, neg, exp) ==
  ParseDigits(SubSeq(mant, 1, dp - 1), SubSeq(mant, dp + 1, Len(mant)), neg, exp)

ParseDecimal(body, ep, neg) ==
  ParseMantissa(SubSeq(body, 1, ep - 1), FirstIndex(SubSeq(body, 1, ep - 1), {"."}), neg,
                ParseExponent(SubSeq(body, ep + 1, Len(body)), ep <= Len(body)))

ParseUnsigned(body, word, neg) ==
  IF word \in {<<"i","n","f">>, <<"i","n","f","i","n","i","t","y">>}
  THEN [ok |-> TRUE, v |-> IF neg THEN PyNegInf ELSE PyInf]
  ELSE IF word = NanStr THEN [ok |-> TRUE, v |-> PyNan]
  ELSE ParseDecimal(body, FirstIndex(body, {"e", "E"}), neg)

ParseSigned(t, signed) ==
  ParseUnsigned(IF signed THEN Tail(t) ELSE t,
                Lower(IF signed THEN Tail(t) ELSE t),
                signed /\ Head(t) = "-")

ParseStripped(t) == ParseSigned(t, t # << >> /\ Head(t) \in {"+", "-"})

\* float(s): [ok |-> FALSE] stands for ValueError
ParseFloat(s) == ParseStripped(Strip(s))

RECURSIVE NatStr(_)
NatStr(n) == IF n < 10 THEN <<DigitChars[n + 1]>> ELSE Append(NatStr(n \div 10), DigitChars[(n % 10) + 1])

\* str(n) for an int
IntStr(n) == IF n < 0 THEN <<"-">> \o NatStr(0 - n) ELSE NatStr(n)

RECURSIVE ZeroPad(_, _)
ZeroPad(s, width) == IF Len(s) >= width THEN s ELSE ZeroPad(<<"0">> \o s, width)

\* str(x) for an int or a float (positional notation, 1e-4 <= |x| < 1e16)
PyStr(x) ==
  IF x.k = "int" THEN IntStr(x.n)
  ELSE IF x.k \in {"inf", "-inf"} THEN (IF x.k = "inf" THEN <<"i","n","f">> ELSE <<"-","i","n","f">>)
  ELSE IF x.k = "nan" THEN NanStr
  ELSE LET a == IF x.n < 0 THEN 0 - x.n ELSE x.n
           sign == IF x.n < 0 THEN <<"-">> ELSE << >>
           ip == NatStr(a \div Pow10(x.d))
           fp == IF x.d = 0 THEN <<"0">> ELSE ZeroPad(NatStr(a % Pow10(x.d)), x.d)
       IN  sign \o ip \o <<".">> \o fp

(***************************************************************************)
(* Shipment constants.                                                     *)
(***************************************************************************)
CONSIGNMENT_VALUES ==
  [ total_invoice |-> <<"2","0","0","6",".","6","4">>,
    total_cif |-> <<"4","2","1","2",".","9","9">>,
    total_cost |-> <<"6","2","1",".","1">>,
    external_freight_foreign |-> <<"4",".","7","8">>,
    external_freight_national |-> <<"8",".","5","6">>,
    insurance_foreign |-> <<"0",".","5","8">>,
    insurance_national |-> <<"1",".","0","4">>,
    other_cost_foreign |-> <<"0",".","4","7">>,
    other_cost_national |-> <<"0",".","8","4">>,
    total_cif_itm |-> <<"7","0",".","8">>,
    statistical_value |-> <<"7","1">>,
    alpha_coefficient |-> <<"0",".","0","1","6","8","0","4","2","1","0","0","2","2","7","2","4","5">>,
    duty_tax_base |-> <<"7","1">>,
    duty_tax_rate |-> <<"6">>,
    duty_tax_amount |-> <<"4",".","3">>,
    total_item_taxes |-> <<"3","4","7",".","7","5">>,
    calculation_working_mode |-> <<"0">>,
    container_flag |-> <<"F","a","l","s","e">>,
    delivery_terms_code |-> <<"D","D","P">>,
    currency_rate |-> <<"1",".","7","9">>,
    manifest_reference |-> <<"L","V","0","2"," ","2","0","2","5"," ","6","2","4","1">>,
    total_forms |-> <<"1","6">> ]

(***************************************************************************)
(* Records and the element tree.  A record (dict) is a function from       *)
(* column names to strings.  An element is [path, text]: path is the tag   *)
(* path from the root, text = NoText stands for Element.text = None.  A    *)
(* tree is the sequence of its elements in creation order, which is        *)
(* document order (every element is created under the most recently        *)
(* created element of its parent's path).                                  *)
(***************************************************************************)
NoText == << >>

\* dict.get with a non-empty default taking precedence over the row
GetDefaultFirst(row, column, default) ==
  IF default # EmptyStr THEN default
  ELSE IF column \in DOMAIN row THEN row[column] ELSE default

\* dict.get(key, default)
Get(row, column, default) == IF column \in DOMAIN row THEN row[column] ELSE default

\* ET.Element(tag)
Element(tag_name) == [path |-> <<tag_name>>, text |-> NoText]

\* ET.SubElement(parent, tag)
SubElement(parent, tag_name) == [path |-> Append(parent.path, tag_name), text |-> NoText]

\* add_element without the tests for 'nan' and 'None'
add_element_any_text(parent, tag_name, text_content) ==
  [path |-> Append(parent.path, tag_name),
   text |-> IF text_content # EmptyStr THEN text_content ELSE NoText]

add_element(parent, tag_name, text_content) ==
  [path |-> Append(parent.path, tag_name),
   text |-> IF text_content # EmptyStr /\ text_content # NanStr /\ text_content # NoneStr
            THEN text_content
            ELSE NoText]

InvoiceColumn == "Invoice Amount_foreign_currency"

RECURSIVE form_total_loop(_, _, _)
form_total_loop(items_data, k, invoice_foreign_total) ==
  IF k > Len(items_data) THEN invoice_foreign_total
  ELSE LET inv_foreign == Get(items_data[k], InvoiceColumn, <<"0">>)
           parsed == ParseFloat(inv_foreign)
       IN  form_total_loop(items_data, k + 1,
             IF inv_foreign = EmptyStr THEN PyAdd(invoice_foreign_total, PyInt(0))
             ELSE IF parsed.ok THEN PyAdd(invoice_foreign_total, parsed.v)
             ELSE invoice_foreign_total)

calculate_form_totals(items_data) == form_total_loop(items_data, 1, PyInt(0))

create_valuation_subsections(parent, form_invoice_foreign) ==
  LET invoice == SubElement(parent, "Invoice")
      external == SubElement(parent, "External_freight")
      internal == SubElement(parent, "Internal_freight")
      insurance == SubElement(parent, "Insurance")
      other == SubElement(parent, "Other_cost")
      deduction == SubElement(parent, "Deduction")
  IN  << invoice,
         add_element(invoice, "Amount_national_currency", <<"3","5","9","1",".","8","9">>),
         add_element(invoice, "Amount_foreign_currency", PyStr(form_invoice_foreign)),
         add_element(invoice, "Currency_code", <<"U","S","D">>),
         add_element(invoice, "Currency_name", <<"G","e","e","n"," ","v","r","e","e","m","d","e"," ","v","a",
             "l","u","t","a">>),
         add_element(invoice, "Currency_rate", CONSIGNMENT_VALUES["currency_rate"]),
         external,
         add_element(external, "Amount_national_currency", <<"5","0","9",".","2","4">>),
         add_element(external, "Amount_foreign_currency", <<"1","7",".","2","7">>),
         add_element(external, "Currency_code", <<"U","S","D">>),
         add_element(external, "Currency_name", <<"G","e","e","n"," ","v","r","e","e","m","d","e"," ","v",
             "a","l","u","t","a">>),
         add_element(external, "Currency_rate", CONSIGNMENT_VALUES["currency_rate"]),
         internal,
         add_element(internal, "Amount_national_currency", <<"0">>),
         add_element(internal, "Amount_foreign_currency", <<"0">>),
         add_element(internal, "Currency_code", EmptyStr),
         add_element(internal, "Currency_name", <<"G","e","e","n"," ","v","r","e","e","m","d","e"," ","v",
             "a","l","u","t","a">>),
         add_element(internal, "Currency_rate", <<"0">>),
         insurance,
         add_element(insurance, "Amount_national_currency", <<"6","2",".","2","6">>),
         add_element(insurance, "Amount_foreign_currency", <<"1",".","0","0","8","7","5">>),
         add_element(insurance, "Currency_code", <<"U","S","D">>),
         add_element(insurance, "Currency_name", <<"G","e","e","n"," ","v","r","e","e","m","d","e"," ","v",
             "a","l","u","t","a">>),
         add_element(insurance, "Currency_rate", CONSIGNMENT_VALUES["currency_rate"]),
         other,
         add_element(other, "Amount_national_currency", <<"4","9",".","6">>),
         add_element(other, "Amount_foreign_currency", EmptyStr),
         add_element(other, "Currency_code", <<"U","S","D">>),
         add_element(other, "Currency_name", <<"G","e","e","n"," ","v","r","e","e","m","d","e"," ","v","a",
             "l","u","t","a">>),
         add_element(other, "Currency_rate", CONSIGNMENT_VALUES["currency_rate"]),
         deduction,
         add_element(deduction, "Amount_national_currency", <<"0">>),
         add_element(deduction, "Amount_foreign_currency", <<"0">>),
         add_element(deduction, "Currency_code", <<"U","S","D">>),
         add_element(deduction, "Currency_name", <<"G","e","e","n"," ","v","r","e","e","m","d","e"," ","v",
             "a","l","u","t","a">>),
         add_element(deduction, "Currency_rate", CONSIGNMENT_VALUES["currency_rate"]) >>

\* create_item_supplementary_unit with the first slot numbered like the others
create_item_supplementary_unit_ranked(parent, item_data, unit_num) ==
  LET supp_unit == SubElement(parent, "Supplementary_unit")
  IN  IF unit_num = "1" THEN
        << supp_unit,
           add_element(supp_unit, "Supplementary_unit_rank", <<"1">>),
           add_element(supp_unit, "Supplementary_unit_code", Get(item_data, "Supplementary_unit_code", <<"P",
               "C","E">>)),
           add_element(supp_unit, "Supplementary_unit_name", Get(item_data, "Supplementary_unit_name_1", <<"A",
               "a","n","t","a","l"," ","S","t","u","c","k","s">>)),
           add_element(supp_unit, "Supplementary_unit_quantity", Get(item_data,
               "Supplementary_unit_quantity_1", EmptyStr)) >>
      ELSE IF unit_num = "2" THEN
        << supp_unit,
           add_element(supp_unit, "Supplementary_unit_rank", <<"2">>),
           add_element(supp_unit, "Supplementary_unit_name", Get(item_data, "Supplementary_unit_name_2",
               EmptyStr)),
           add_element(supp_unit, "Supplementary_unit_quantity", Get(item_data,
               "Supplementary_unit_quantity_2", EmptyStr)) >>
      ELSE
        << supp_unit,
           add_element(supp_unit, "Supplementary_unit_rank", <<"3">>),
           add_element(supp_unit, "Supplementary_unit_name", Get(item_data, "Supplementary_unit_name_3",
               EmptyStr)),
           add_element(supp_unit, "Supplementary_unit_quantity", Get(item_data,
               "Supplementary_unit_quantity_3", EmptyStr)) >>

create_item_supplementary_unit(parent, item_data, unit_num) ==
  LET supp_unit == SubElement(parent, "Supplementary_unit")
  IN  IF unit_num = "1" THEN
        << supp_unit,
           add_element(supp_unit, "Supplementary_unit_rank", EmptyStr),
           add_element(supp_unit, "Supplementary_unit_code", Get(item_data, "Supplementary_unit_code", <<"P",
               "C","E">>)),
           add_element(supp_unit, "Supplementary_unit_name", Get(item_data, "Supplementary_unit_name_1", <<"A",
               "a","n","t","a","l"," ","S","t","u","c","k","s">>)),
           add_element(supp_unit, "Supplementary_unit_quantity", Get(item_data,
               "Supplementary_unit_quantity_1", EmptyStr)) >>
      ELSE IF unit_num = "2" THEN
        << supp_unit,
           add_element(supp_unit, "Supplementary_unit_rank", <<"2">>),
           add_element(supp_unit, "Supplementary_unit_name", Get(item_data, "Supplementary_unit_name_2",
               EmptyStr)),
           add_element(supp_unit, "Supplementary_unit_quantity", Get(item_data,
               "Supplementary_unit_quantity_2", EmptyStr)) >>
      ELSE
        << supp_unit,
           add_element(supp_unit, "Supplementary_unit_rank", <<"3">>),
           add_element(supp_unit, "Supplementary_unit_name", Get(item_data, "Supplementary_unit_name_3",
               EmptyStr)),
           add_element(supp_unit, "Supplementary_unit_quantity", Get(item_data,
               "Supplementary_unit_quantity_3", EmptyStr)) >>

\* the item valuation with the external freight taken from the row's amount
create_item_valuation_subsections_apportioned(parent, item_data) ==
  LET invoice == SubElement(parent, "Invoice")
      external == SubElement(parent, "External_freight")
      internal == SubElement(parent, "Internal_freight")
      insurance == SubElement(parent, "Insurance")
      other == SubElement(parent, "Other_cost")
      deduction == SubElement(parent, "Deduction")
  IN  << invoice,
         add_element(invoice, "Amount_national_currency", EmptyStr),
         add_element(invoice, "Amount_foreign_currency", Get(item_data, "Invoice Amount_foreign_currency",
             EmptyStr)),
         add_element(invoice, "Currency_code", <<"U","S","D">>),
         add_element(invoice, "Currency_name", <<"G","e","e","n"," ","v","r","e","e","m","d","e"," ","v","a",
             "l","u","t","a">>),
         add_element(invoice, "Currency_rate", CONSIGNMENT_VALUES["currency_rate"]),
         external,
         add_element(external, "Amount_national_currency", CONSIGNMENT_VALUES["external_freight_national"]),
         add_element(external, "Amount_foreign_currency",
             Get(item_data, InvoiceColumn, CONSIGNMENT_VALUES["external_freight_foreign"])),
         add_element(external, "Currency_code", <<"U","S","D">>),
         add_element(external, "Currency_name", <<"G","e","e","n"," ","v","r","e","e","m","d","e"," ","v",
             "a","l","u","t","a">>),
         add_element(external, "Currency_rate", CONSIGNMENT_VALUES["currency_rate"]),
         internal,
         add_element(internal, "Amount_national_currency", <<"0">>),
         add_element(internal, "Amount_foreign_currency", EmptyStr),
         add_element(internal, "Currency_code", EmptyStr),
         add_element(internal, "Currency_name", <<"G","e","e","n"," ","v","r","e","e","m","d","e"," ","v",
             "a","l","u","t","a">>),
         add_element(internal, "Currency_rate", <<"0">>),
         insurance,
         add_element(insurance, "Amount_national_currency", CONSIGNMENT_VALUES["insurance_national"]),
         add_element(insurance, "Amount_foreign_currency", CONSIGNMENT_VALUES["insurance_foreign"]),
         add_element(insurance, "Currency_code", <<"U","S","D">>),
         add_element(insurance, "Currency_name", <<"G","e","e","n"," ","v","r","e","e","m","d","e"," ","v",
             "a","l","u","t","a">>),
         add_element(insurance, "Currency_rate", CONSIGNMENT_VALUES["currency_rate"]),
         other,
         add_element(other, "Amount_national_currency", CONSIGNMENT_VALUES["other_cost_national"]),
         add_element(other, "Amount_foreign_currency", CONSIGNMENT_VALUES["other_cost_foreign"]),
         add_element(other, "Currency_code", <<"U","S","D">>),
         add_element(other, "Currency_name", <<"G","e","e","n"," ","v","r","e","e","m","d","e"," ","v","a",
             "l","u","t","a">>),
         add_element(other, "Currency_rate", CONSIGNMENT_VALUES["currency_rate"]),
         deduction,
         add_element(deduction, "Amount_national_currency", <<"0">>),
         add_element(deduction, "Amount_foreign_currency", <<"0">>),
         add_element(deduction, "Currency_code", <<"U","S","D">>),
         add_element(deduction, "Currency_name", <<"G","e","e","n"," ","v","r","e","e","m","d","e"," ","v",
             "a","l","u","t","a">>),
         add_element(deduction, "Currency_rate", CONSIGNMENT_VALUES["currency_rate"]) >>

create_item_valuation_subsections(parent, item_data) ==
  LET invoice == SubElement(parent, "Invoice")
      external == SubElement(parent, "External_freight")
      internal == SubElement(parent, "Internal_freight")
      insurance == SubElement(parent, "Insurance")
      other == SubElement(parent, "Other_cost")
      deduction == SubElement(parent, "Deduction")
  IN  << invoice,
         add_element(invoice, "Amount_national_currency", EmptyStr),
         add_element(invoice, "Amount_foreign_currency", Get(item_data, "Invoice Amount_foreign_currency",
             EmptyStr)),
         add_element(invoice, "Currency_code", <<"U","S","D">>),
         add_element(invoice, "Currency_name", <<"G","e","e","n"," ","v","r","e","e","m","d","e"," ","v","a",
             "l","u","t","a">>),
         add_element(invoice, "Currency_rate", CONSIGNMENT_VALUES["currency_rate"]),
         external,
         add_element(external, "Amount_national_currency", CONSIGNMENT_VALUES["external_freight_national"]),
         add_element(external, "Amount_foreign_currency", CONSIGNMENT_VALUES["external_freight_foreign"]),
         add_element(external, "Currency_code", <<"U","S","D">>),
         add_element(external, "Currency_name", <<"G","e","e","n"," ","v","r","e","e","m","d","e"," ","v",
             "a","l","u","t","a">>),
         add_element(external, "Currency_rate", CONSIGNMENT_VALUES["currency_rate"]),
         internal,
         add_element(internal, "Amount_national_currency", <<"0">>),
         add_element(internal, "Amount_foreign_currency", EmptyStr),
         add_element(internal, "Currency_code", EmptyStr),
         add_element(internal, "Currency_name", <<"G","e","e","n"," ","v","r","e","e","m","d","e"," ","v",
             "a","l","u","t","a">>),
         add_element(internal, "Currency_rate", <<"0">>),
         insurance,
         add_element(insurance, "Amount_national_currency", CONSIGNMENT_VALUES["insurance_national"]),
         add_element(insurance, "Amount_foreign_currency", CONSIGNMENT_VALUES["insurance_foreign"]),
         add_element(insurance, "Currency_code", <<"U","S","D">>),
         add_element(insurance, "Currency_name", <<"G","e","e","n"," ","v","r","e","e","m","d","e"," ","v",
             "a","l","u","t","a">>),
         add_element(insurance, "Currency_rate", CONSIGNMENT_VALUES["currency_rate"]),
         other,
         add_element(other, "Amount_national_currency", CONSIGNMENT_VALUES["other_cost_national"]),
         add_element(other, "Amount_foreign_currency", CONSIGNMENT_VALUES["other_cost_foreign"]),
         add_element(other, "Currency_code", <<"U","S","D">>),
         add_element(other, "Currency_name", <<"G","e","e","n"," ","v","r","e","e","m","d","e"," ","v","a",
             "l","u","t","a">>),
         add_element(other, "Currency_rate", CONSIGNMENT_VALUES["currency_rate"]),
         deduction,
         add_element(deduction, "Amount_national_currency", <<"0">>),
         add_element(deduction, "Amount_foreign_currency", <<"0">>),
         add_element(deduction, "Currency_code", <<"U","S","D">>),
         add_element(deduction, "Currency_name", <<"G","e","e","n"," ","v","r","e","e","m","d","e"," ","v",
             "a","l","u","t","a">>),
         add_element(deduction, "Currency_rate", CONSIGNMENT_VALUES["currency_rate"]) >>

\* create_item_element with the declaration's total item taxes on each item
create_item_element_total_taxes(parent, item_data, item_number) ==
  LET item == SubElement(parent, "Item")
      packages == SubElement(item, "Packages")
      tariff == SubElement(item, "Tariff")
      harmonized == SubElement(tariff, "Harmonized_system")
      quota == SubElement(tariff, "Quota")
      goods_desc == SubElement(item, "Goods_description")
      valuation_item == SubElement(item, "Valuation_item")
      weight == SubElement(valuation_item, "Weight")
      prev_doc == SubElement(item, "Previous_document")
      taxation == SubElement(item, "Taxation")
      tax_line == SubElement(taxation, "Taxation_line")
  IN  << item,
         packages,
         add_element(packages, "Number_of_packages", Get(item_data, "Number_of_packages", EmptyStr)),
         add_element(packages, "Marks1_of_packages", Get(item_data, "Marks1_of_packages", EmptyStr)),
         add_element(packages, "Marks2_of_packages", Get(item_data, "Marks2_of_packages", EmptyStr)),
         add_element(packages, "Kind_of_packages_code", Get(item_data, "Kind_of_packages_code", <<"S","T",
             "K","S">>)),
         add_element(packages, "Kind_of_packages_name", Get(item_data, "Kind_of_packages_name", <<"S","t",
             "u","k","s">>)),
         tariff,
         add_element(tariff, "Extended_customs_procedure", Get(item_data, "Extended_customs_procedure",
             <<"4","0","0","0">>)),
         add_element(tariff, "National_customs_procedure", Get(item_data, "National_customs_procedure",
             <<"0","0",":","0","0",":","0","0">>)),
         add_element(tariff, "Preference_code", Get(item_data, "Preference_code", EmptyStr)),
         harmonized,
         add_element(harmonized, "Commodity_code", Get(item_data, "Commodity_code", EmptyStr)),
         add_element(harmonized, "Precision_4", Get(item_data, "Precision_4", EmptyStr)) >>
      \o create_item_supplementary_unit(tariff, item_data, "1")
      \o create_item_supplementary_unit(tariff, item_data, "2")
      \o create_item_supplementary_unit(tariff, item_data, "3")
      \o << quota,
            add_element(quota, "Quota_code", Get(item_data, "Quota_code", EmptyStr)),
            goods_desc,
            add_element(goods_desc, "Country_of_origin_code", Get(item_data, "Country_of_origin_code", <<"U",
                "S">>)),
            add_element(goods_desc, "Description_of_goods", Get(item_data, "Description_of_goods", EmptyStr)),
            add_element(goods_desc, "Commercial_description", Get(item_data, "Commercial_description",
                EmptyStr)),
            valuation_item,
            add_element(valuation_item, "Rate_of_adjustment", <<"1">>),
            add_element(valuation_item, "Total_cost_itm", EmptyStr),
            add_element(valuation_item, "Total_cif_itm", CONSIGNMENT_VALUES["total_cif_itm"]),
            add_element(valuation_item, "Statistical_value", CONSIGNMENT_VALUES["statistical_value"]),
            add_element(valuation_item, "Alpha_coeficient_of_apportionment",
                CONSIGNMENT_VALUES["alpha_coefficient"]),
            weight,
            add_element(weight, "Gross_weight_itm", Get(item_data, "Gross_weight_itm", <<"0",".","5">>)),
            add_element(weight, "Net_weight_itm", Get(item_data, "Net_weight_itm", <<"0",".","5">>)) >>
      \o create_item_valuation_subsections(valuation_item, item_data)
      \o << prev_doc,
            add_element(prev_doc, "Summary_declaration", Get(item_data, "Summary_declaration", EmptyStr)),
            add_element(prev_doc, "Summary_declaration_sl", Get(item_data, "Summary_declaration_sl", <<"1">>)),
            taxation,
            add_element(taxation, "Item_taxes_amount", CONSIGNMENT_VALUES["total_item_taxes"]),
            add_element(taxation, "Item_taxes_mode_of_payment", <<"1">>),
            tax_line,
            add_element(tax_line, "Duty_tax_code", <<"I","R">>),
            add_element(tax_line, "Duty_tax_base", CONSIGNMENT_VALUES["duty_tax_base"]),
            add_element(tax_line, "Duty_tax_rate", CONSIGNMENT_VALUES["duty_tax_rate"]),
            add_element(tax_line, "Duty_tax_amount", CONSIGNMENT_VALUES["duty_tax_amount"]),
            add_element(tax_line, "Duty_tax_MP", <<"1">>) >>

create_item_element(parent, item_data, item_number) ==
  LET item == SubElement(parent, "Item")
      packages == SubElement(item, "Packages")
      tariff == SubElement(item, "Tariff")
      harmonized == SubElement(tariff, "Harmonized_system")
      quota == SubElement(tariff, "Quota")
      goods_desc == SubElement(item, "Goods_description")
      valuation_item == SubElement(item, "Valuation_item")
      weight == SubElement(valuation_item, "Weight")
      prev_doc == SubElement(item, "Previous_document")
      taxation == SubElement(item, "Taxation")
      tax_line == SubElement(taxation, "Taxation_line")
  IN  << item,
         packages,
         add_element(packages, "Number_of_packages", Get(item_data, "Number_of_packages", EmptyStr)),
         add_element(packages, "Marks1_of_packages", Get(item_data, "Marks1_of_packages", EmptyStr)),
         add_element(packages, "Marks2_of_packages", Get(item_data, "Marks2_of_packages", EmptyStr)),
         add_element(packages, "Kind_of_packages_code", Get(item_data, "Kind_of_packages_code", <<"S","T",
             "K","S">>)),
         add_element(packages, "Kind_of_packages_name", Get(item_data, "Kind_of_packages_name", <<"S","t",
             "u","k","s">>)),
         tariff,
         add_element(tariff, "Extended_customs_procedure", Get(item_data, "Extended_customs_procedure",
             <<"4","0","0","0">>)),
         add_element(tariff, "National_customs_procedure", Get(item_data, "National_customs_procedure",
             <<"0","0",":","0","0",":","0","0">>)),
         add_element(tariff, "Preference_code", Get(item_data, "Preference_code", EmptyStr)),
         harmonized,
         add_element(harmonized, "Commodity_code", Get(item_data, "Commodity_code", EmptyStr)),
         add_element(harmonized, "Precision_4", Get(item_data, "Precision_4", EmptyStr)) >>
      \o create_item_supplementary_unit(tariff, item_data, "1")
      \o create_item_supplementary_unit(tariff, item_data, "2")
      \o create_item_supplementary_unit(tariff, item_data, "3")
      \o << quota,
            add_element(quota, "Quota_code", Get(item_data, "Quota_code", EmptyStr)),
            goods_desc,
            add_element(goods_desc, "Country_of_origin_code", Get(item_data, "Country_of_origin_code", <<"U",
                "S">>)),
            add_element(goods_desc, "Description_of_goods", Get(item_data, "Description_of_goods", EmptyStr)),
            add_element(goods_desc, "Commercial_description", Get(item_data, "Commercial_description",
                EmptyStr)),
            valuation_item,
            add_element(valuation_item, "Rate_of_adjustment", <<"1">>),
            add_element(valuation_item, "Total_cost_itm", EmptyStr),
            add_element(valuation_item, "Total_cif_itm", CONSIGNMENT_VALUES["total_cif_itm"]),
            add_element(valuation_item, "Statistical_value", CONSIGNMENT_VALUES["statistical_value"]),
            add_element(valuation_item, "Alpha_coeficient_of_apportionment",
                CONSIGNMENT_VALUES["alpha_coefficient"]),
            weight,
            add_element(weight, "Gross_weight_itm", Get(item_data, "Gross_weight_itm", <<"0",".","5">>)),
            add_element(weight, "Net_weight_itm", Get(item_data, "Net_weight_itm", <<"0",".","5">>)) >>
      \o create_item_valuation_subsections(valuation_item, item_data)
      \o << prev_doc,
            add_element(prev_doc, "Summary_declaration", Get(item_data, "Summary_declaration", EmptyStr)),
            add_element(prev_doc, "Summary_declaration_sl", Get(item_data, "Summary_declaration_sl", <<"1">>)),
            taxation,
            add_element(taxation, "Item_taxes_amount", CONSIGNMENT_VALUES["duty_tax_amount"]),
            add_element(taxation, "Item_taxes_mode_of_payment", <<"1">>),
            tax_line,
            add_element(tax_line, "Duty_tax_code", <<"I","R">>),
            add_element(tax_line, "Duty_tax_base", CONSIGNMENT_VALUES["duty_tax_base"]),
            add_element(tax_line, "Duty_tax_rate", CONSIGNMENT_VALUES["duty_tax_rate"]),
            add_element(tax_line, "Duty_tax_amount", CONSIGNMENT_VALUES["duty_tax_amount"]),
            add_element(tax_line, "Duty_tax_MP", <<"1">>) >>

\* the item loop with each new Item placed in front of those already built
RECURSIVE create_items_newest_first(_, _, _)
create_items_newest_first(items_elem, items_data, item_number) ==
  IF item_number > Len(items_data) THEN << >>
  ELSE create_items_newest_first(items_elem, items_data, item_number + 1)
       \o create_item_element(items_elem, items_data[item_number], item_number)

\* for i, item_data in enumerate(items_data): create_item_element(items_elem, item_data, i+1)
RECURSIVE create_items(_, _, _)
create_items(items_elem, items_data, item_number) ==
  IF item_number > Len(items_data) THEN << >>
  ELSE create_item_element(items_elem, items_data[item_number], item_number)
       \o create_items(items_elem, items_data, item_number + 1)

\* the Total block with Total_weight left out when the item rows carry no amount
create_total_block_if_amount(valuation, items_data) ==
  LET total == SubElement(valuation, "Total")
  IN  IF calculate_form_totals(items_data) = PyInt(0)
      THEN << total,
              add_element(total, "Total_invoice", CONSIGNMENT_VALUES["total_invoice"]) >>
      ELSE << total,
              add_element(total, "Total_invoice", CONSIGNMENT_VALUES["total_invoice"]),
              add_element(total, "Total_weight", IntStr(Len(items_data))) >>

\* the Total block with Total_weight taken one past the item count
create_total_block_one_more(valuation, items_data) ==
  LET total == SubElement(valuation, "Total")
  IN  << total,
         add_element(total, "Total_invoice", CONSIGNMENT_VALUES["total_invoice"]),
         add_element(total, "Total_weight", IntStr(Len(items_data) + 1)) >>

\* the Total block with Total_invoice computed from the file's item rows
create_total_block_per_file(valuation, items_data) ==
  LET total == SubElement(valuation, "Total")
  IN  << total,
         add_element(total, "Total_invoice", PyStr(calculate_form_totals(items_data))),
         add_element(total, "Total_weight", IntStr(Len(items_data))) >>

\* the Total block of the declaration-level valuation
create_total_block(valuation, items_data) ==
  LET total == SubElement(valuation, "Total")
  IN  << total,
         add_element(total, "Total_invoice", CONSIGNMENT_VALUES["total_invoice"]),
         add_element(total, "Total_weight", IntStr(Len(items_data))) >>

\* the Financial_transaction block with Code_2 read from its own column
create_financial_transaction_own_columns(financial, sad_data) ==
  LET fin_trans == SubElement(financial, "Financial_transaction")
  IN  << fin_trans,
         add_element(fin_trans, "Code_1", Get(sad_data, "Financial_transaction Code_1", <<"1">>)),
         add_element(fin_trans, "Code_2", Get(sad_data, "Financial_transaction Code_2", <<"1">>)) >>

\* the Financial_transaction block of the Financial section
create_financial_transaction(financial, sad_data) ==
  LET fin_trans == SubElement(financial, "Financial_transaction")
  IN  << fin_trans,
         add_element(fin_trans, "Code_1", Get(sad_data, "Financial_transaction Code_1", <<"1">>)),
         add_element(fin_trans, "Code_2", Get(sad_data, "Financial_transaction Code_1", <<"1">>)) >>

create_asycuda_xml(sad_data, items_data, filename) ==
  LET form_invoice_foreign == calculate_form_totals(items_data)
      root == Element("ASYCUDA")
      sad == SubElement(root, "SAD")
      assessment_notice == SubElement(sad, "Assessment_notice")
      items_taxes == SubElement(assessment_notice, "Items_taxes")
      item_tax == SubElement(items_taxes, "Item_tax")
      properties == SubElement(sad, "Properties")
      forms == SubElement(properties, "Forms")
      identification == SubElement(sad, "Identification")
      office_segment == SubElement(identification, "Office_segment")
      type_elem == SubElement(identification, "Type")
      traders == SubElement(sad, "Traders")
      exporter == SubElement(traders, "Exporter")
      consignee == SubElement(traders, "Consignee")
      financial_trader == SubElement(traders, "Financial")
      declarant == SubElement(sad, "Declarant")
      reference == SubElement(declarant, "Reference")
      general_info == SubElement(sad, "General_information")
      country == SubElement(general_info, "Country")
      export == SubElement(country, "Export")
      destination == SubElement(country, "Destination")
      transport == SubElement(sad, "Transport")
      means_transport == SubElement(transport, "Means_of_transport")
      departure == SubElement(means_transport, "Departure_arrival_information")
      border == SubElement(means_transport, "Border_information")
      delivery == SubElement(transport, "Delivery_terms")
      border_office == SubElement(transport, "Border_office")
      place_loading == SubElement(transport, "Place_of_loading")
      financial == SubElement(sad, "Financial")
      bank == SubElement(financial, "Bank")
      terms == SubElement(financial, "Terms")
      amounts == SubElement(financial, "Amounts")
      guarantee == SubElement(financial, "Guarantee")
      transit == SubElement(sad, "Transit")
      valuation == SubElement(sad, "Valuation")
      items_elem == SubElement(root, "Items")
  IN  << root,
         sad,
         assessment_notice,
         add_element(assessment_notice, "Total_item_taxes", CONSIGNMENT_VALUES["total_item_taxes"]),
         items_taxes,
         item_tax,
         add_element(item_tax, "Tax_code", Get(sad_data, "Tax_code", <<"I","R">>)),
         add_element(item_tax, "Tax_description", Get(sad_data, "Tax_description", <<"I","n","v","o","e","r",
             "r","e","c","h","t","e","n">>)),
         add_element(item_tax, "Tax_amount", CONSIGNMENT_VALUES["total_item_taxes"]),
         add_element(item_tax, "Tax_mop", Get(sad_data, "Tax_mop", <<"1">>)),
         properties,
         add_element(properties, "Sad_flow", Get(sad_data, "Sad_flow", <<"I">>)),
         forms,
         add_element(forms, "Number_of_the_form", Get(sad_data, "Number_of_the_form", <<"1">>)),
         add_element(forms, "Total_number_of_forms", CONSIGNMENT_VALUES["total_forms"]),
         add_element(properties, "Selected_page", Get(sad_data, "Selected_page", <<"1">>)),
         identification,
         add_element(identification, "Manifest_reference_number", CONSIGNMENT_VALUES["manifest_reference"]),
         office_segment,
         add_element(office_segment, "Customs_clearance_office_code", Get(sad_data,
             "Customs_clearance_office_code", <<"L","V","0","1">>)),
         add_element(office_segment, "Customs_clearance_office_name", Get(sad_data,
             "Customs_clearance_office_name", <<"L","u","c","h","t","h","a","v","e","n"," ","V","r",
             "a","c","h","t">>)),
         type_elem,
         add_element(type_elem, "Type_of_declaration", Get(sad_data, "Type_of_declaration", <<"I","N","V">>)),
         add_element(type_elem, "General_procedure_code", Get(sad_data, "General_procedure_code", <<"4">>)),
         traders,
         exporter,
         add_element(exporter, "Exporter_code", Get(sad_data, "Exporter_code", EmptyStr)),
         add_element(exporter, "Exporter_name", Get(sad_data, "Exporter_name", EmptyStr)),
         consignee,
         add_element(consignee, "Consignee_code", Get(sad_data, "Consignee_code", <<"1","0","0","2","6","4",
             "8","3">>)),
         add_element(consignee, "Consignee_name", Get(sad_data, "Consignee_name", <<"D","h","r","."," ","A",
             "n","t","h","o","n","y"," ","M","a","r","t","i","n","a"," ","P","a","r","a","d","e",
             "r","a"," ","1","-","H"," ","P","a","r","a","d","e","r","a"," ","P","a","r","a","d",
             "e","r","a"," ","A","r","u","b","a">>)),
         financial_trader,
         add_element(financial_trader, "Financial_code", Get(sad_data, "Financial_code", EmptyStr)),
         add_element(financial_trader, "Financial_name", Get(sad_data, "Financial_name", EmptyStr)),
         declarant,
         add_element(declarant, "Declarant_code", Get(sad_data, "Declarant_code", <<"1","1","6","0","6","5",
             "0">>)),
         add_element(declarant, "Declarant_name", Get(sad_data, "Declarant_name", <<"D","h","r","."," ","V",
             "i","c","t","o","r"," ","H","o","e","k"," ","A","l","t","o"," ","V","i","s","t","a",
             " ","1","3","3"," ","A","l","t","o"," ","V","i","s","t","a"," ","N","o","o","r","d",
             "/","T","a","n","k","i"," ","L","e","e","n","d","e","r","t"," ","A","r","u","b","a">>)),
         add_element(declarant, "Declarant_representative", Get(sad_data, "Declarant_representative", <<"L",
             "i","z","a","n","d","r","a"," ","I","."," ","G","e","e","r","m","a","n">>)),
         reference,
         add_element(reference, "Year", Get(sad_data, "Reference Year", <<"2","0","2","5">>)),
         add_element(reference, "Number", Get(sad_data, "Reference Number", EmptyStr)),
         general_info,
         country,
         add_element(country, "Country_first_destination", Get(sad_data, "Country_first_destination", <<"U",
             "S">>)),
         add_element(country, "Trading_country", Get(sad_data, "Trading_country", <<"U","S">>)),
         add_element(country, "Country_of_origin_name", Get(sad_data, "Country_of_origin_name", <<"V","e",
             "r","e","n","i","g","d","e"," ","S","t","a","t","e","n">>)),
         export,
         add_element(export, "Export_country_code", Get(sad_data, "Export_country_code", <<"U","S">>)),
         add_element(export, "Export_country_name", Get(sad_data, "Export_country_name", <<"V","e","r","e",
             "n","i","g","d","e"," ","S","t","a","t","e","n">>)),
         add_element(export, "Export_country_region", Get(sad_data, "Export_country_region", EmptyStr)),
         destination,
         add_element(destination, "Destination_country_code", Get(sad_data, "Destination_country_code",
             <<"A","W">>)),
         add_element(destination, "Destination_country_name", Get(sad_data, "Destination_country_name",
             <<"A","r","u","b","a">>)),
         add_element(destination, "Destination_country_region", Get(sad_data, "Destination_country_region",
             EmptyStr)),
         add_element(general_info, "Value_details", CONSIGNMENT_VALUES["total_cost"]),
         add_element(general_info, "CAP", Get(sad_data, "CAP", EmptyStr)),
         transport,
         add_element(transport, "Container_flag", CONSIGNMENT_VALUES["container_flag"]),
         add_element(transport, "Location_of_goods", Get(sad_data, "Location_of_goods", <<"R","T","-","0",
             "1">>)),
         add_element(transport, "Location_of_goods_address", Get(sad_data, "Location_of_goods_address",
             <<"S","a","b","a","n","a"," ","B","e","r","d","e"," ","#","7","5">>)),
         means_transport,
         departure,
         add_element(departure, "Identity", Get(sad_data, "Departure_arrival_information Identity", <<"C",
             "O","P","A"," ","A","I","R","L","I","N","E","S">>)),
         add_element(departure, "Nationality", Get(sad_data, "Departure_arrival_information Nationality",
             <<"P","A">>)),
         border,
         add_element(border, "Identity", Get(sad_data, "Border_information Identity", EmptyStr)),
         add_element(border, "Nationality", Get(sad_data, "Border_information Nationality", EmptyStr)),
         add_element(border, "Mode", Get(sad_data, "Border_information Mode", <<"4">>)),
         delivery,
         add_element(delivery, "Code", CONSIGNMENT_VALUES["delivery_terms_code"]),
         add_element(delivery, "Place", Get(sad_data, "Delivery_terms Place", <<"U","S","A">>)),
         border_office,
         add_element(border_office, "Code", Get(sad_data, "Border_office Code", <<"L","V","0","1">>)),
         add_element(border_office, "Name", Get(sad_data, "Border_office Name", <<"L","u","c","h","t","h",
             "a","v","e","n"," ","V","r","a","c","h","t">>)),
         place_loading,
         add_element(place_loading, "Code", Get(sad_data, "Place_of_loading Code", <<"A","W","A","I","R">>)),
         add_element(place_loading, "Name", Get(sad_data, "Place_of_loading Name", <<"A","e","r","o","p","u",
             "e","r","t","o"," ","R","e","i","n","a"," ","B","e","a","t","r","i","x">>)),
         financial,
         add_element(financial, "Deffered_payment_reference", Get(sad_data, "Deffered_payment_reference",
             EmptyStr)),
         add_element(financial, "Mode_of_payment", Get(sad_data, "Mode_of_payment", <<"C","O","N","T","A",
             "N","T">>)) >>
      \o create_financial_transaction(financial, sad_data)
      \o << bank,
         add_element(bank, "Branch", Get(sad_data, "Bank Branch", EmptyStr)),
         add_element(bank, "Reference", Get(sad_data, "Bank Reference", EmptyStr)),
         terms,
         add_element(terms, "Code", Get(sad_data, "Terms Code", EmptyStr)),
         add_element(terms, "Description", Get(sad_data, "Terms Description", EmptyStr)),
         amounts,
         add_element(amounts, "Global_taxes", Get(sad_data, "Amounts Global_taxes", <<"0">>)),
         add_element(amounts, "Totals_taxes", CONSIGNMENT_VALUES["total_item_taxes"]),
         guarantee,
         add_element(guarantee, "Amount", Get(sad_data, "Guarantee Amount", <<"0">>)),
         transit,
         add_element(transit, "Result_of_control", Get(sad_data, "Result_of_control", EmptyStr)),
         valuation,
         add_element(valuation, "Calculation_working_mode", CONSIGNMENT_VALUES["calculation_working_mode"]),
         add_element(valuation, "Total_cost", CONSIGNMENT_VALUES["total_cost"]),
         add_element(valuation, "Total_cif", CONSIGNMENT_VALUES["total_cif"]) >>
      \o create_valuation_subsections(valuation, form_invoice_foreign)
      \o create_total_block(valuation, items_data)
      \o << items_elem >>
      \o create_items(items_elem, items_data, 1)

(***************************************************************************)
(* Serializer.  The text is a sequence of lines; a line is                 *)
(* [indent, kind, tag, text] with kind "decl" (the XML declaration),       *)
(* "open" <tag>, "close" </tag>, "empty" <tag/> or "leaf" <tag>text</tag>. *)
(***************************************************************************)
\* characters the XML parser rejects (control characters other than \t \n \r)
InvalidXmlChars == {"\f"}

\* the parser's end-of-line handling: \r\n and a lone \r read back as \n
RECURSIVE NormalizeEolFrom(_, _)
NormalizeEolFrom(s, k) ==
  IF k > Len(s) THEN << >>
  ELSE IF s[k] = "\r"
       THEN <<"\n">> \o NormalizeEolFrom(s, IF k < Len(s) /\ s[k + 1] = "\n" THEN k + 2 ELSE k + 1)
       ELSE <<s[k]>> \o NormalizeEolFrom(s, k + 1)

NormalizeEol(s) == IF \A k \in 1..Len(s) : s[k] # "\r" THEN s ELSE NormalizeEolFrom(s, 1)

EscapeChar(c) ==
  CASE c = "&" -> <<"&","a","m","p",";">>
    [] c = "<" -> <<"&","l","t",";">>
    [] c = ">" -> <<"&","g","t",";">>
    [] OTHER -> <<c>>

RECURSIVE EscapeFrom(_, _)
EscapeFrom(s, k) == IF k > Len(s) THEN << >> ELSE EscapeChar(s[k]) \o EscapeFrom(s, k + 1)

\* minidom's escaping of character data
EscapeData(s) == IF \A k \in 1..Len(s) : s[k] \notin {"&", "<", ">"} THEN s ELSE EscapeFrom(s, 1)

Depth(doc, k) == IF k > Len(doc) THEN 0 ELSE Len(doc[k].path)

RECURSIVE CloseLines(_, _, _)
CloseLines(path, level, downTo) ==
  IF level < downTo \/ level < 1 THEN << >>
  ELSE <<[indent |-> level - 1, kind |-> "close", tag |-> path[level], text |-> << >>]>>
       \o CloseLines(path, level - 1, downTo)

\* the lines written for element k: its own line, then the closing tags of the
\* ancestors that end with it
ElementLines(doc, k) ==
  LET e == doc[k]
      depth == Len(e.path)
      next == Depth(doc, k + 1)
      line == [indent |-> depth - 1,
               kind |-> IF next > depth THEN "open"
                        ELSE IF e.text = NoText THEN "empty" ELSE "leaf",
               tag |-> e.path[depth],
               text |-> EscapeData(NormalizeEol(e.text))]
  IN  <<line>> \o CloseLines(e.path, depth - 1, IF next = 0 THEN 1 ELSE next)

\* the lines of elements lo..hi in document order
RECURSIVE TreeLines(_, _, _)
TreeLines(doc, lo, hi) ==
  IF lo > hi THEN << >>
  ELSE IF lo = hi THEN ElementLines(doc, lo)
  ELSE LET mid == (lo + hi) \div 2
       IN  TreeLines(doc, lo, mid) \o TreeLines(doc, mid + 1, hi)

\* prettify_xml: [raised |-> TRUE] stands for the parser's ExpatError
prettify_xml(elem) ==
  IF \E k \in 1..Len(elem) : \E j \in 1..Len(elem[k].text) : elem[k].text[j] \in InvalidXmlChars
  THEN [raised |-> TRUE, text |-> << >>]
  ELSE [raised |-> FALSE,
        text |-> <<[indent |-> 0, kind |-> "decl", tag |-> "xml", text |-> << >>]>>
                 \o TreeLines(elem, 1, Len(elem))]

(***************************************************************************)
(* Extractor.  file_content is what pd.read_excel returns for the two      *)
(* sheets: [ok |-> FALSE] when the read raises (sheet missing or           *)
(* unreadable), else a frame of columns and rows of cells.  A cell is      *)
(* null (NaN), a text or a number.                                         *)
(***************************************************************************)
NullCell == [k |-> "null", s |-> << >>, v |-> PyInt(0)]

TextCell(s) == [k |-> "str", s |-> s, v |-> PyInt(0)]

NumCell(v) == [k |-> "num", s |-> << >>, v |-> v]

\* pd.notna(cell)
notna(cell) == cell.k # "null"

\* str(cell)
CellStr(cell) == IF cell.k = "num" THEN PyStr(cell.v) ELSE cell.s

\* df.empty
FrameEmpty(df) == df.rows = << >> \/ df.columns = {}

RowRecord(df, row) == [col \in df.columns |-> IF notna(row[col]) THEN CellStr(row[col]) ELSE EmptyStr]

\* read_excel_data with both sheets read under one try
read_excel_data_one_try(file_content) ==
  LET sad_df == file_content.SAD
      items_df == file_content.Items
      sad_data == IF sad_df.ok /\ items_df.ok /\ ~FrameEmpty(sad_df)
                  THEN RowRecord(sad_df, sad_df.rows[1])
                  ELSE << >>
      items_data == IF sad_df.ok /\ items_df.ok /\ ~FrameEmpty(items_df)
                    THEN [k \in 1..Len(items_df.rows) |-> RowRecord(items_df, items_df.rows[k])]
                    ELSE << >>
  IN  [sad_data |-> sad_data, items_data |-> items_data]

read_excel_data(file_content) ==
  LET sad_df == file_content.SAD
      items_df == file_content.Items
      sad_data == IF sad_df.ok /\ ~FrameEmpty(sad_df)
                  THEN RowRecord(sad_df, sad_df.rows[1])
                  ELSE << >>
      items_data == IF items_df.ok /\ ~FrameEmpty(items_df)
                    THEN [k \in 1..Len(items_df.rows) |-> RowRecord(items_df, items_df.rows[k])]
                    ELSE << >>
  IN  [sad_data |-> sad_data, items_data |-> items_data]

\* "not d" for a dict or a list
IsEmpty(d) == DOMAIN d = {}

(***************************************************************************)
(* convert_excel_to_xml.  The result is [success, xml, error]: xml is the  *)
(* serialized text on success, error the message on failure.               *)
(***************************************************************************)
ConvOk(xml_content) == [success |-> TRUE, xml |-> xml_content, error |-> [text |-> "", filename |-> << >>]]

ConvFail(text, filename) == [success |-> FALSE, xml |-> << >>, error |-> [text |-> text, filename |-> filename]]

convert_records(sad_data, items_data, filename) ==
  IF IsEmpty(sad_data) /\ IsEmpty(items_data)
  THEN ConvFail("No valid data found in", filename)
  ELSE LET xml_root == create_asycuda_xml(sad_data, items_data, filename)
           pretty == prettify_xml(xml_root)
       IN  IF pretty.raised THEN ConvFail("Error: not well-formed (invalid token)", filename)
           ELSE ConvOk(pretty.text)

convert_excel_to_xml(file_content, filename) ==
  LET data == read_excel_data(file_content)
  IN  convert_records(data.sad_data, data.items_data, filename)

(***************************************************************************)
(* Inputs of the bounded check.                                            *)
(***************************************************************************)
X123 == <<"X","1","2","3">>

FormFeedText == <<"a","\f","b">>

\* all dicts over subsets of columns with the values texts[column]
Records(columns, texts) ==
  UNION {{r \in [cs -> UNION {texts[c] : c \in cs}] : \A c \in cs : r[c] \in texts[c]} :
         cs \in SUBSET columns}

SeqsUpTo(S, n) == UNION {[1..k -> S] : k \in 0..n}

HeaderColumns == {"Exporter_code", "Consignee_code", "total_invoice"}

HeaderTexts == [column \in HeaderColumns |-> {EmptyStr, NanStr, NoneStr, X123}]

HeaderRecords == Records(HeaderColumns, HeaderTexts)

ItemColumns == {InvoiceColumn, "Kind_of_packages_code"}

ItemTexts ==
  [column \in ItemColumns |->
     IF column = InvoiceColumn
     THEN {EmptyStr, <<"4",".","5">>, <<"a","b","c">>, <<"i","n","f">>}
     ELSE {EmptyStr, NoneStr, <<"B","O","X">>}]

\* item rows that fill at most one of the columns
ItemRecords == UNION {Records({c}, ItemTexts) : c \in ItemColumns}

\* the item rows of the aggregation example: "10.5", "", "abc", "4.5"
ExampleItems ==
  << [c \in {InvoiceColumn} |-> <<"1","0",".","5">>],
     [c \in {InvoiceColumn} |-> EmptyStr],
     [c \in {InvoiceColumn} |-> <<"a","b","c">>],
     [c \in {InvoiceColumn} |-> <<"4",".","5">>] >>

FewItemSeqs == {<< >>, <<[c \in {InvoiceColumn} |-> <<"4",".","5">>]>>, ExampleItems}

FewHeaders == {<< >>, [c \in {"Exporter_code"} |-> FormFeedText]}

FinancialColumns == {"Financial_transaction Code_1", "Financial_transaction Code_2"}

FinancialTexts ==
  [column \in FinancialColumns |->
     IF column = "Financial_transaction Code_1" THEN {EmptyStr, <<"2">>} ELSE {<<"1">>, <<"3">>}]

FinancialHeaders == Records(FinancialColumns, FinancialTexts)

MapInputs ==
  (HeaderRecords \X FewItemSeqs) \cup (FewHeaders \X SeqsUpTo(ItemRecords, MaxItems))
    \cup (FinancialHeaders \X {<< >>})

NoSheet == [ok |-> FALSE, columns |-> {}, rows |-> << >>]

Frame(columns, rows) == [ok |-> TRUE, columns |-> columns, rows |-> rows]

SadColumns == {"Exporter_code", "Consignee_code"}

SadCells == {NullCell, TextCell(X123), TextCell(FormFeedText)}

SadFrames ==
  {NoSheet, Frame({}, << >>)}
    \cup {Frame(SadColumns, rows) : rows \in SeqsUpTo([SadColumns -> SadCells], 1)}
    \cup {Frame(SadColumns, <<[c \in SadColumns |-> TextCell(X123)], [c \in SadColumns |-> NullCell]>>)}

ItemCells == {NullCell, NumCell(PyFloat(105, 1)), TextCell(<<"a","b","c">>), TextCell(<<"4",".","5">>)}

ItemFrames ==
  {NoSheet} \cup {Frame({InvoiceColumn}, rows) : rows \in SeqsUpTo([{InvoiceColumn} -> ItemCells], MaxItems)}

FileContents == [SAD : SadFrames, Items : ItemFrames]

NoContent == [SAD |-> NoSheet, Items |-> NoSheet]

ConvFilename == <<"f",".","x","l","s","x">>

(***************************************************************************)
(* State.  The first six variables are one call of convert_excel_to_xml    *)
(* taken step by step; the others are the /convert requests, each with its *)
(* locals, the shared progress table, the delayed cleanup threads, and the *)
(* reply of /progress when the latest step was a poll.                     *)
(***************************************************************************)
VARIABLES conv_file_content, conv_sad_data, conv_items_data, conv_xml_root, conv_result, conv_pc,
          req, conversion_progress, cleanup, polled

batch_vars == <<req, conversion_progress, cleanup, polled>>

(***************************************************************************)
(* The /convert handler and the progress table.                            *)
(***************************************************************************)
Requests == 1..NumRequests

SessionIds == {"s1", "s2"}

Upload(filename, content) == [filename |-> filename, content |-> content]

GoodContent ==
  [SAD |-> Frame(SadColumns, <<[c \in SadColumns |-> TextCell(X123)]>>), Items |-> NoSheet]

FormFeedContent ==
  [SAD |-> Frame(SadColumns, <<[c \in SadColumns |-> TextCell(FormFeedText)]>>), Items |-> NoSheet]

Uploads ==
  { Upload(<<"a",".","x","l","s","x">>, GoodContent),
    Upload(<<"a",".","x","l","s">>, GoodContent),
    Upload(<<"B",".","X","L","S","M">>, FormFeedContent),
    Upload(<<"n",".","t","x","t">>, GoodContent) }

\* the file part a browser sends when no file is selected
NoFileSelected == Upload(EmptyStr, NoContent)

\* the files of the requests accepted so far
UploadedFiles ==
  LET sum[k \in 0..NumRequests] == IF k = 0 THEN 0 ELSE sum[k - 1] + Len(req[k].files)
  IN  sum[NumRequests]

\* session ids are named in the order of their first use
SessionChoices(r) == IF r = 1 THEN {"s1"} ELSE SessionIds

\* convert_excel_to_xml on each upload, tabulated
Converted == [u \in Uploads \cup {NoFileSelected} |-> convert_excel_to_xml(u.content, u.filename)]

SpreadsheetSuffixes == {<<".","x","l","s","x">>, <<".","x","l","s">>, <<".","x","l","s","m">>}

\* file.filename.lower().endswith(('.xlsx', '.xls', '.xlsm'))
IsSpreadsheetName(filename) == EndsWithAny(Lower(filename), SpreadsheetSuffixes)

\* file.filename.rsplit('.', 1)[0] + '.xml'
xml_filename(filename) == RsplitDotHead(filename) \o <<".","x","m","l">>

\* file.filename + '_ERROR.txt'
error_filename(filename) == filename \o <<"_","E","R","R","O","R",".","t","x","t">>

NoReport == [prefix |-> "", text |-> "", filename |-> << >>]

XmlEntry(name, result) == [name |-> name, kind |-> "xml", xml |-> result.xml, report |-> NoReport]

ErrorEntry(name, prefix, text, filename) ==
  [name |-> name, kind |-> "error", xml |-> << >>,
   report |-> [prefix |-> prefix, text |-> text, filename |-> filename]]

\* a float percentage, kept as the exact fraction n / d
Percent(n, d) == [n |-> n, d |-> d]

Status(text, k, total, filename) == [text |-> text, k |-> k, total |-> total, filename |-> filename]

InitialProgress(total) ==
  [total |-> total, processed |-> 0, successful |-> 0, errors |-> 0,
   percent |-> Percent(0, 1), current_file |-> EmptyStr,
   status |-> Status("Starting conversion...", 0, 0, EmptyStr)]

IdleRequest ==
  [pc |-> "idle", files |-> << >>, session_id |-> "s1", i |-> 0, zip |-> << >>, response |-> "none"]

EmptyTable == [sid \in {} |-> InitialProgress(0)]

\* conversion_progress[sid] = entry
Put(table, sid, entry) == [k \in DOMAIN table \cup {sid} |-> IF k = sid THEN entry ELSE table[k]]

\* if sid in conversion_progress: del conversion_progress[sid]
Discard(table, sid) == [k \in DOMAIN table \ {sid} |-> table[k]]

\* the default of conversion_progress.get in get_progress
SessionNotFound ==
  [total |-> 0, processed |-> 0, successful |-> 0, errors |-> 0,
   percent |-> Percent(0, 1),
   current_file |-> <<"N","o"," ","a","c","t","i","v","e"," ","s","e","s","s","i","o","n">>,
   status |-> Status("Session not found", 0, 0, EmptyStr)]

\* no reply: the latest step was not a poll
NoPoll == [session_id |-> "", progress |-> SessionNotFound]

\* the reply of /progress/<session_id>
Reply(session_id, progress) == [session_id |-> session_id, progress |-> progress]

NoResult == [success |-> FALSE, xml |-> << >>, error |-> [text |-> "", filename |-> << >>]]

BatchInit ==
  /\ req = [r \in Requests |-> IdleRequest]
  /\ conversion_progress = EmptyTable
  /\ cleanup = [r \in Requests |-> "none"]
  /\ polled = NoPoll

ConvIdle ==
  /\ conv_file_content = NoContent
  /\ conv_sad_data = << >>
  /\ conv_items_data = << >>
  /\ conv_xml_root = << >>
  /\ conv_result = NoResult
  /\ conv_pc = "done"

(***************************************************************************)
(* One conversion, step by step.                                           *)
(***************************************************************************)
conv_vars == <<conv_file_content, conv_sad_data, conv_items_data, conv_xml_root, conv_result, conv_pc>>

ConvInit ==
  /\ conv_file_content \in FileContents
  /\ conv_sad_data = << >>
  /\ conv_items_data = << >>
  /\ conv_xml_root = << >>
  /\ conv_result = NoResult
  /\ conv_pc = "start"
  /\ BatchInit

\* the inputs of create_asycuda_xml drawn directly
MapInit ==
  /\ conv_file_content = NoContent
  /\ \E in \in MapInputs : conv_sad_data = in[1] /\ conv_items_data = in[2]
  /\ conv_xml_root = << >>
  /\ conv_result = NoResult
  /\ conv_pc = "read"
  /\ BatchInit

ReadExcel ==
  /\ conv_pc = "start"
  /\ LET data == read_excel_data(conv_file_content)
     IN  /\ conv_sad_data' = data.sad_data
         /\ conv_items_data' = data.items_data
  /\ conv_pc' = "read"
  /\ UNCHANGED <<conv_file_content, conv_xml_root, conv_result, batch_vars>>

\* the empty-input test with "or" in place of "and"
EmptyInputEither ==
  /\ conv_pc = "read"
  /\ IsEmpty(conv_sad_data) \/ IsEmpty(conv_items_data)
  /\ conv_result' = ConvFail("No valid data found in", ConvFilename)
  /\ conv_pc' = "done"
  /\ UNCHANGED <<conv_file_content, conv_sad_data, conv_items_data, conv_xml_root, batch_vars>>

EmptyInput ==
  /\ conv_pc = "read"
  /\ IsEmpty(conv_sad_data) /\ IsEmpty(conv_items_data)
  /\ conv_result' = ConvFail("No valid data found in", ConvFilename)
  /\ conv_pc' = "done"
  /\ UNCHANGED <<conv_file_content, conv_sad_data, conv_items_data, conv_xml_root, batch_vars>>

CreateXml ==
  /\ conv_pc = "read"
  /\ ~(IsEmpty(conv_sad_data) /\ IsEmpty(conv_items_data))
  /\ conv_xml_root' = create_asycuda_xml(conv_sad_data, conv_items_data, ConvFilename)
  /\ conv_pc' = "mapped"
  /\ UNCHANGED <<conv_file_content, conv_sad_data, conv_items_data, conv_result, batch_vars>>

PrettifyXml ==
  /\ conv_pc = "mapped"
  /\ LET pretty == prettify_xml(conv_xml_root)
     IN  conv_result' = IF pretty.raised
                        THEN ConvFail("Error: not well-formed (invalid token)", ConvFilename)
                        ELSE ConvOk(pretty.text)
  /\ conv_pc' = "done"
  /\ UNCHANGED <<conv_file_content, conv_sad_data, conv_items_data, conv_xml_root, batch_vars>>

(***************************************************************************)
(* The /convert handler, one action per step between lock acquisitions.   *)
(***************************************************************************)
\* request r arrives: validation and the initialisation of its progress entry
Submit(r) ==
  /\ req[r].pc = "idle"
  /\ IF r = 1 THEN TRUE ELSE req[r - 1].pc # "idle"
  /\ \E files \in SeqsUpTo(Uploads, MaxFiles - UploadedFiles) \cup {<<NoFileSelected>>},
        session_id \in SessionChoices(r) :
       IF files = << >> \/ files[1].filename = EmptyStr
       THEN /\ req' = [req EXCEPT ![r] = [@ EXCEPT !.pc = "rejected", !.files = files,
                                                  !.session_id = session_id, !.response = "400"]]
            /\ UNCHANGED conversion_progress
       ELSE /\ req' = [req EXCEPT ![r] = [@ EXCEPT !.pc = "loop", !.files = files,
                                                  !.session_id = session_id]]
            /\ conversion_progress' = Put(conversion_progress, session_id, InitialProgress(Len(files)))
  /\ UNCHANGED <<cleanup, conv_vars>>
  /\ polled' = NoPoll

\* the current file is not a spreadsheet by name: the loop body is skipped
SkipFile(r) ==
  /\ req[r].pc = "loop"
  /\ req[r].i < Len(req[r].files)
  /\ ~IsSpreadsheetName(req[r].files[req[r].i + 1].filename)
  /\ req' = [req EXCEPT ![r].i = @ + 1]
  /\ UNCHANGED <<conversion_progress, cleanup, conv_vars>>
  /\ polled' = NoPoll

\* StartFile with percent restarted at 0 for each file
StartFilePercentRestarts(r) ==
  LET me == req[r]
      file == me.files[me.i + 1]
      total_files == Len(me.files)
  IN  /\ me.pc = "loop"
      /\ me.i < total_files
      /\ IsSpreadsheetName(file.filename)
      /\ IF me.session_id \in DOMAIN conversion_progress
         THEN /\ conversion_progress' =
                   [conversion_progress EXCEPT ![me.session_id] =
                      [@ EXCEPT !.current_file = file.filename,
                                !.status = Status("Processing", me.i + 1, total_files, file.filename),
                                !.percent = Percent(0 * 100, total_files)]]
              /\ req' = [req EXCEPT ![r].pc = "convert"]
         ELSE /\ req' = [req EXCEPT ![r].pc = "outer_except"]
              /\ UNCHANGED conversion_progress
      /\ UNCHANGED <<cleanup, conv_vars>>
      /\ polled' = NoPoll

\* "Update progress - current file"; a missing entry raises KeyError out of the loop
StartFile(r) ==
  LET me == req[r]
      file == me.files[me.i + 1]
      total_files == Len(me.files)
  IN  /\ me.pc = "loop"
      /\ me.i < total_files
      /\ IsSpreadsheetName(file.filename)
      /\ IF me.session_id \in DOMAIN conversion_progress
         THEN /\ conversion_progress' =
                   [conversion_progress EXCEPT ![me.session_id] =
                      [@ EXCEPT !.current_file = file.filename,
                                !.status = Status("Processing", me.i + 1, total_files, file.filename),
                                !.percent = Percent(me.i * 100, total_files)]]
              /\ req' = [req EXCEPT ![r].pc = "convert"]
         ELSE /\ req' = [req EXCEPT ![r].pc = "outer_except"]
              /\ UNCHANGED conversion_progress
      /\ UNCHANGED <<cleanup, conv_vars>>
      /\ polled' = NoPoll

\* ConvertFile with the loop left at the first failed conversion
ConvertFileStopsAtFailure(r) ==
  LET me == req[r]
      file == me.files[me.i + 1]
      result == Converted[file]
      entry == IF result.success
               THEN XmlEntry(xml_filename(file.filename), result)
               ELSE ErrorEntry(error_filename(file.filename), "Conversion failed:",
                               result.error.text, result.error.filename)
      counter == IF result.success THEN "successful" ELSE "errors"
  IN  /\ me.pc = "convert"
      /\ IF me.session_id \in DOMAIN conversion_progress
         THEN /\ conversion_progress' =
                   [conversion_progress EXCEPT ![me.session_id][counter] = @ + 1]
              /\ req' = [req EXCEPT ![r] =
                           IF result.success
                           THEN [@ EXCEPT !.zip = Append(@, entry), !.pc = "processed"]
                           ELSE [@ EXCEPT !.zip = Append(@, entry), !.pc = "loop",
                                          !.i = Len(me.files)]]
         ELSE /\ req' = [req EXCEPT ![r] = [@ EXCEPT !.zip = Append(@, entry), !.pc = "inner_except"]]
              /\ UNCHANGED conversion_progress
      /\ UNCHANGED <<cleanup, conv_vars>>
      /\ polled' = NoPoll

\* ConvertFile with a conversion that reads the progress table: it gives up
\* once a file of the session has been processed
ConvertFileReadsProgress(r) ==
  LET me == req[r]
      file == me.files[me.i + 1]
      result == IF /\ me.session_id \in DOMAIN conversion_progress
                   /\ conversion_progress[me.session_id].processed > 0
                THEN ConvFail("Error: busy", file.filename)
                ELSE Converted[file]
      entry == IF result.success
               THEN XmlEntry(xml_filename(file.filename), result)
               ELSE ErrorEntry(error_filename(file.filename), "Conversion failed:",
                               result.error.text, result.error.filename)
      counter == IF result.success THEN "successful" ELSE "errors"
  IN  /\ me.pc = "convert"
      /\ IF me.session_id \in DOMAIN conversion_progress
         THEN /\ conversion_progress' =
                   [conversion_progress EXCEPT ![me.session_id][counter] = @ + 1]
              /\ req' = [req EXCEPT ![r] = [@ EXCEPT !.zip = Append(@, entry), !.pc = "processed"]]
         ELSE /\ req' = [req EXCEPT ![r] = [@ EXCEPT !.zip = Append(@, entry), !.pc = "inner_except"]]
              /\ UNCHANGED conversion_progress
      /\ UNCHANGED <<cleanup, conv_vars>>
      /\ polled' = NoPoll

\* ConvertFile with a lost increment: the counter is written from a stale 0
ConvertFileLostIncrement(r) ==
  LET me == req[r]
      file == me.files[me.i + 1]
      result == Converted[file]
      entry == IF result.success
               THEN XmlEntry(xml_filename(file.filename), result)
               ELSE ErrorEntry(error_filename(file.filename), "Conversion failed:",
                               result.error.text, result.error.filename)
      counter == IF result.success THEN "successful" ELSE "errors"
  IN  /\ me.pc = "convert"
      /\ IF me.session_id \in DOMAIN conversion_progress
         THEN /\ conversion_progress' =
                   [conversion_progress EXCEPT ![me.session_id][counter] = 0 + 1]
              /\ req' = [req EXCEPT ![r] = [@ EXCEPT !.zip = Append(@, entry), !.pc = "processed"]]
         ELSE /\ req' = [req EXCEPT ![r] = [@ EXCEPT !.zip = Append(@, entry), !.pc = "inner_except"]]
              /\ UNCHANGED conversion_progress
      /\ UNCHANGED <<cleanup, conv_vars>>
      /\ polled' = NoPoll

\* file.read(), convert_excel_to_xml, the archive entry and the counter
ConvertFile(r) ==
  LET me == req[r]
      file == me.files[me.i + 1]
      result == Converted[file]
      entry == IF result.success
               THEN XmlEntry(xml_filename(file.filename), result)
               ELSE ErrorEntry(error_filename(file.filename), "Conversion failed:",
                               result.error.text, result.error.filename)
      counter == IF result.success THEN "successful" ELSE "errors"
  IN  /\ me.pc = "convert"
      /\ IF me.session_id \in DOMAIN conversion_progress
         THEN /\ conversion_progress' =
                   [conversion_progress EXCEPT ![me.session_id][counter] = @ + 1]
              /\ req' = [req EXCEPT ![r] = [@ EXCEPT !.zip = Append(@, entry), !.pc = "processed"]]
         ELSE /\ req' = [req EXCEPT ![r] = [@ EXCEPT !.zip = Append(@, entry), !.pc = "inner_except"]]
              /\ UNCHANGED conversion_progress
      /\ UNCHANGED <<cleanup, conv_vars>>
      /\ polled' = NoPoll

\* except Exception as e: the "Unexpected error" entry and the errors counter
InnerExcept(r) ==
  LET me == req[r]
      file == me.files[me.i + 1]
      entry == ErrorEntry(error_filename(file.filename), "Unexpected error:", "KeyError", << >>)
  IN  /\ me.pc = "inner_except"
      /\ IF me.session_id \in DOMAIN conversion_progress
         THEN /\ conversion_progress' =
                   [conversion_progress EXCEPT ![me.session_id].errors = @ + 1]
              /\ req' = [req EXCEPT ![r] = [@ EXCEPT !.zip = Append(@, entry), !.pc = "processed"]]
         ELSE /\ req' = [req EXCEPT ![r] = [@ EXCEPT !.zip = Append(@, entry), !.pc = "outer_except"]]
              /\ UNCHANGED conversion_progress
      /\ UNCHANGED <<cleanup, conv_vars>>
      /\ polled' = NoPoll

\* "Update processed count"
UpdateProcessed(r) ==
  LET me == req[r]
      total_files == Len(me.files)
  IN  /\ me.pc = "processed"
      /\ IF me.session_id \in DOMAIN conversion_progress
         THEN /\ conversion_progress' =
                   [conversion_progress EXCEPT ![me.session_id] =
                      [@ EXCEPT !.processed = me.i + 1,
                                !.percent = Percent((me.i + 1) * 100, total_files)]]
              /\ req' = [req EXCEPT ![r] = [@ EXCEPT !.i = @ + 1, !.pc = "loop"]]
         ELSE /\ req' = [req EXCEPT ![r].pc = "outer_except"]
              /\ UNCHANGED conversion_progress
      /\ UNCHANGED <<cleanup, conv_vars>>
      /\ polled' = NoPoll

\* "Final progress update", then the archive is returned and the cleanup thread started
FinalUpdate(r) ==
  LET me == req[r]
  IN  /\ me.pc = "loop"
      /\ me.i = Len(me.files)
      /\ IF me.session_id \in DOMAIN conversion_progress
         THEN /\ conversion_progress' =
                   [conversion_progress EXCEPT ![me.session_id] =
                      [@ EXCEPT !.status = Status("Conversion completed! Creating ZIP file...", 0, 0, EmptyStr),
                                !.percent = Percent(100, 1),
                                !.current_file = EmptyStr]]
              /\ req' = [req EXCEPT ![r] = [@ EXCEPT !.pc = "done", !.response = "zip"]]
              /\ cleanup' = [cleanup EXCEPT ![r] = "sleeping"]
         ELSE /\ req' = [req EXCEPT ![r].pc = "outer_except"]
              /\ UNCHANGED <<conversion_progress, cleanup>>
      /\ UNCHANGED conv_vars
      /\ polled' = NoPoll

\* the handler's outer "except Exception": the entry is dropped, the response is a 500
OuterExcept(r) ==
  /\ req[r].pc = "outer_except"
  /\ conversion_progress' = Discard(conversion_progress, req[r].session_id)
  /\ req' = [req EXCEPT ![r] = [@ EXCEPT !.pc = "failed", !.response = "500"]]
  /\ UNCHANGED <<cleanup, conv_vars>>
  /\ polled' = NoPoll

\* cleanup_progress, once its sleep is over
CleanupProgress(r) ==
  /\ cleanup[r] = "sleeping"
  /\ conversion_progress' = Discard(conversion_progress, req[r].session_id)
  /\ cleanup' = [cleanup EXCEPT ![r] = "done"]
  /\ UNCHANGED <<req, conv_vars>>
  /\ polled' = NoPoll

\* get_progress with setdefault in place of get: the default is stored
get_progress_setdefault(session_id) ==
  /\ polled' = Reply(session_id, IF session_id \in DOMAIN conversion_progress
                                 THEN conversion_progress[session_id]
                                 ELSE SessionNotFound)
  /\ conversion_progress' = IF session_id \in DOMAIN conversion_progress
                            THEN conversion_progress
                            ELSE Put(conversion_progress, session_id, SessionNotFound)
  /\ UNCHANGED <<req, cleanup, conv_vars>>

\* GET /progress/<session_id>: the session's entry, or the default
get_progress(session_id) ==
  /\ polled' = Reply(session_id, IF session_id \in DOMAIN conversion_progress
                                 THEN conversion_progress[session_id]
                                 ELSE SessionNotFound)
  /\ UNCHANGED <<req, conversion_progress, cleanup, conv_vars>>

Init == BatchInit /\ ConvIdle

Next ==
  \/ \E r \in Requests : Submit(r)
  \/ \E r \in Requests : SkipFile(r)
  \/ \E r \in Requests : StartFile(r)
  \/ \E r \in Requests : ConvertFile(r)
  \/ \E r \in Requests : InnerExcept(r)
  \/ \E r \in Requests : UpdateProcessed(r)
  \/ \E r \in Requests : FinalUpdate(r)
  \/ \E r \in Requests : OuterExcept(r)
  \/ \E r \in Requests : CleanupProgress(r)

\* the batches with clients polling /progress
PollNext ==
  \/ Next
  \/ \E session_id \in SessionIds : get_progress(session_id)

\* the steps the handler thread of request r takes once the request is in
Handler(r) ==
  \/ SkipFile(r)
  \/ StartFile(r)
  \/ ConvertFile(r)
  \/ InnerExcept(r)
  \/ UpdateProcessed(r)
  \/ FinalUpdate(r)
  \/ OuterExcept(r)

ConvNext == ReadExcel \/ EmptyInput \/ CreateXml \/ PrettifyXml

MapNext == EmptyInput \/ CreateXml \/ PrettifyXml

vars == <<conv_file_content, conv_sad_data, conv_items_data, conv_xml_root, conv_result, conv_pc,
          req, conversion_progress, cleanup, polled>>

\* every handler thread and every cleanup thread keeps being scheduled:
\* no step waits for anything but the lock, which each holder releases
Scheduling == \A r \in Requests : WF_vars(Handler(r)) /\ WF_vars(CleanupProgress(r))

Spec == Init /\ [][Next]_vars

SpecPoll == Init /\ [][PollNext]_vars

SpecLive == Init /\ [][PollNext]_vars /\ Scheduling

SpecConv == ConvInit /\ [][ConvNext]_vars

SpecMap == MapInit /\ [][MapNext]_vars

(***************************************************************************)
(* Properties of the batch operation.                                      *)
(***************************************************************************)
\* C1: the package returned by /convert holds exactly as many entries as
\* files were submitted, whatever their names and whether they convert.
C1_EntryPerSubmittedFile ==
  \A r \in Requests : req[r].response = "zip" => Len(req[r].zip) = Len(req[r].files)

\* the uploads that the handler takes for spreadsheets
Spreadsheets == {u \in Uploads : IsSpreadsheetName(u.filename)}

IsSpreadsheet(file) == file \in Spreadsheets

\* the files of request r that convert successfully on their own
ConvertsAlone(r, k) ==
  /\ IsSpreadsheet(req[r].files[k])
  /\ Converted[req[r].files[k]].success

FailsAlone(r, k) ==
  /\ IsSpreadsheet(req[r].files[k])
  /\ ~Converted[req[r].files[k]].success

HasXmlEntry(r, k) ==
  \E j \in 1..Len(req[r].zip) :
    req[r].zip[j] = XmlEntry(xml_filename(req[r].files[k].filename), Converted[req[r].files[k]])

\* C2: a file whose conversion fails never keeps a sibling from being
\* converted: the loop reaches every file of a returned package, and every
\* file the loop has passed that converts on its own has its XML entry,
\* before or after the failing file.
C2_FailureIsolated ==
  \A r \in Requests :
    /\ req[r].response = "zip" => req[r].i = Len(req[r].files)
    /\ \A k \in 1..req[r].i : ConvertsAlone(r, k) => HasXmlEntry(r, k)

\* a returned package of a batch whose first file fails and whose next converts
C2_Witness ==
  \E r \in Requests :
    /\ req[r].response = "zip"
    /\ \E k \in 1..Len(req[r].files) :
         /\ FailsAlone(r, k)
         /\ \E j \in (k + 1)..Len(req[r].files) : ConvertsAlone(r, j) /\ HasXmlEntry(r, j)

\* C3: the step that handles a file records exactly one outcome: on success
\* one XML entry and successful + 1 with errors unchanged, on failure one
\* error report naming the file with a reason and errors + 1 with successful
\* unchanged; nothing more is recorded for that file.
C3_OneOutcomePerFile ==
  [][\A r \in Requests :
       (req[r].pc = "convert" /\ req'[r].pc # "convert") =>
         LET me == req[r]
             sid == me.session_id
             file == me.files[me.i + 1]
             result == Converted[file]
             last == req'[r].zip[Len(req'[r].zip)]
         IN  /\ sid \in DOMAIN conversion_progress
             /\ sid \in DOMAIN conversion_progress'
             /\ req'[r].pc = "processed"
             /\ Len(req'[r].zip) = Len(me.zip) + 1
             /\ IF result.success
                THEN /\ last = XmlEntry(xml_filename(file.filename), result)
                     /\ conversion_progress'[sid].successful = conversion_progress[sid].successful + 1
                     /\ conversion_progress'[sid].errors = conversion_progress[sid].errors
                ELSE /\ last.kind = "error"
                     /\ last.name = error_filename(file.filename)
                     /\ last.report.text # ""
                     /\ conversion_progress'[sid].errors = conversion_progress[sid].errors + 1
                     /\ conversion_progress'[sid].successful = conversion_progress[sid].successful
    ]_vars

(***************************************************************************)
(* Properties of one conversion.                                           *)
(***************************************************************************)
\* a document tree has been built
Mapped == conv_pc \in {"mapped", "done"} /\ conv_xml_root # << >>

\* the document has been serialized
Serialized == conv_pc = "done" /\ conv_result.success

\* the elements of doc with this path
At(doc, path) == {k \in DOMAIN doc : doc[k].path = path}

ItemPath == <<"ASYCUDA", "Items", "Item">>

\* the position of the n-th Item element
NthItem(doc, n) ==
  CHOOSE k \in At(doc, ItemPath) : Cardinality({j \in At(doc, ItemPath) : j <= k}) = n

\* the elements with this path inside the n-th Item subtree
InItem(doc, n, path) ==
  {k \in At(doc, path) :
     /\ k > NthItem(doc, n)
     /\ \A j \in At(doc, ItemPath) : j > NthItem(doc, n) => k < j}

\* row-or-default leaves of the header: sad_data.get(column, default)
HeaderLeaves ==
  { [path |-> <<"ASYCUDA", "SAD", "Traders", "Exporter", "Exporter_code">>,
     column |-> "Exporter_code", default |-> EmptyStr],
    [path |-> <<"ASYCUDA", "SAD", "Traders", "Consignee", "Consignee_code">>,
     column |-> "Consignee_code", default |-> <<"1","0","0","2","6","4","8","3">>] }

\* row-or-default leaves of an item: item_data.get(column, default)
ItemLeaves ==
  { [path |-> ItemPath \o <<"Packages", "Kind_of_packages_code">>,
     column |-> "Kind_of_packages_code", default |-> <<"S","T","K","S">>],
    [path |-> ItemPath \o <<"Valuation_item", "Invoice", "Amount_foreign_currency">>,
     column |-> InvoiceColumn, default |-> EmptyStr] }

\* each row-or-default leaf with its record and its elements in the tree
LeafCases ==
  {[row |-> conv_sad_data, rule |-> l, at |-> At(conv_xml_root, l.path)] : l \in HeaderLeaves}
    \cup UNION {{[row |-> conv_items_data[n], rule |-> l, at |-> InItem(conv_xml_root, n, l.path)] :
                   l \in ItemLeaves} : n \in 1..Len(conv_items_data)}

AbsentValues == {EmptyStr, NanStr, NoneStr}

RowSupplies(c) == c.rule.column \in DOMAIN c.row /\ c.row[c.rule.column] # EmptyStr

\* value = row[column] if present and non-empty else default
Resolved(c) == IF RowSupplies(c) THEN c.row[c.rule.column] ELSE c.rule.default

LastTag(e) == e.path[Len(e.path)]

\* the elements with this tag that have neither text nor children
TextlessLeaves(doc, tag) ==
  {k \in DOMAIN doc : LastTag(doc[k]) = tag /\ doc[k].text = NoText /\ Depth(doc, k + 1) <= Len(doc[k].path)}

EmptyElementLines(text, tag) ==
  {j \in DOMAIN text : text[j].kind = "empty" /\ text[j].tag = tag}

C5_RowValueWins ==
  Mapped =>
    \A c \in LeafCases :
      (RowSupplies(c) /\ c.row[c.rule.column] \notin AbsentValues) =>
        /\ Cardinality(c.at) = 1
        /\ \A k \in c.at : conv_xml_root[k].text = c.row[c.rule.column]

\* a tree whose record overrides a non-empty default
C5_Witness ==
  /\ Mapped
  /\ \E c \in LeafCases :
       /\ RowSupplies(c)
       /\ c.row[c.rule.column] \notin AbsentValues
       /\ c.rule.default \notin {EmptyStr, c.row[c.rule.column]}
       /\ \E k \in c.at : conv_xml_root[k].text = c.row[c.rule.column]

\* C6: whenever the row's value is missing or the empty string, the leaf
\* carries the rule's default.
C6_BlankUsesDefault ==
  Mapped =>
    \A c \in LeafCases :
      ~RowSupplies(c) =>
        /\ c.at # {}
        /\ \A k \in c.at :
             conv_xml_root[k].text =
               IF c.rule.default \in AbsentValues THEN NoText ELSE c.rule.default

\* the value of a text that is a decimal number, else 0
DecimalOrZero(s) ==
  LET parsed == ParseFloat(s)
  IN  IF parsed.ok /\ parsed.v.k \in {"int", "float"} THEN parsed.v ELSE PyInt(0)

RECURSIVE DecimalSum(_, _)
DecimalSum(items, k) ==
  IF k = 0 THEN PyInt(0)
  ELSE PyAdd(DecimalSum(items, k - 1), DecimalOrZero(Get(items[k], InvoiceColumn, EmptyStr)))

\* two finite numbers are equal
NumEq(a, b) ==
  /\ a.k \in {"int", "float"}
  /\ b.k \in {"int", "float"}
  /\ a.n * Pow10(b.d) = b.n * Pow10(a.d)

FormInvoicePath == <<"ASYCUDA", "SAD", "Valuation", "Invoice", "Amount_foreign_currency">>

\* C7: the declaration-level invoice amount in foreign currency is the sum of
\* the item rows' values, a value that is no decimal number or is missing
\* counting as 0.
C7_InvoiceTotalIsSum ==
  Mapped =>
    /\ Cardinality(At(conv_xml_root, FormInvoicePath)) = 1
    /\ \A k \in At(conv_xml_root, FormInvoicePath) :
         LET parsed == ParseFloat(conv_xml_root[k].text)
         IN  /\ parsed.ok
             /\ NumEq(parsed.v, DecimalSum(conv_items_data, Len(conv_items_data)))

TotalWeightPath == <<"ASYCUDA", "SAD", "Valuation", "Total", "Total_weight">>

TotalInvoicePath == <<"ASYCUDA", "SAD", "Valuation", "Total", "Total_invoice">>

\* C8: Total_weight is the decimal text of the number of item records, and
\* the document has exactly that many Item subtrees.
C8_TotalWeightIsItemCount ==
  Mapped =>
    /\ Cardinality(At(conv_xml_root, TotalWeightPath)) = 1
    /\ \A k \in At(conv_xml_root, TotalWeightPath) :
         conv_xml_root[k].text = IntStr(Len(conv_items_data))
    /\ Cardinality(At(conv_xml_root, ItemPath)) = Len(conv_items_data)

\* a tree built from several item records
C8_Witness ==
  /\ Mapped
  /\ Len(conv_items_data) >= 2
  /\ Cardinality(At(conv_xml_root, ItemPath)) >= 2

\* C9: Total_invoice is the constant of the consignment table whatever the
\* header record and the item records hold, a header column named
\* total_invoice included.
C9_TotalInvoiceIsConstant ==
  /\ Mapped =>
       /\ Cardinality(At(conv_xml_root, TotalInvoicePath)) = 1
       /\ \A k \in At(conv_xml_root, TotalInvoicePath) :
            conv_xml_root[k].text = <<"2","0","0","6",".","6","4">>
  /\ Serialized =>
       \A j \in DOMAIN conv_result.xml :
         conv_result.xml[j].tag = "Total_invoice" =>
           conv_result.xml[j].text = <<"2","0","0","6",".","6","4">>

\* a serialized document whose header has a total_invoice column and whose
\* items carry invoice amounts
C9_Witness ==
  /\ Serialized
  /\ "total_invoice" \in DOMAIN conv_sad_data
  /\ conv_sad_data["total_invoice"] = X123
  /\ \E n \in 1..Len(conv_items_data) : InvoiceColumn \in DOMAIN conv_items_data[n]
  /\ \E j \in DOMAIN conv_result.xml : conv_result.xml[j].tag = "Total_invoice"

NothingExtracted == IsEmpty(conv_sad_data) /\ IsEmpty(conv_items_data)

\* C11: when the header record and the item sequence are both empty the
\* conversion fails with the empty-input error and no tree is built or
\* serialized; when one of them is non-empty that error is not reported.
C11_EmptyInputError ==
  /\ conv_pc = "mapped" => ~NothingExtracted
  /\ conv_pc = "done" =>
       IF NothingExtracted
       THEN /\ ~conv_result.success
            /\ conv_result.error = [text |-> "No valid data found in", filename |-> ConvFilename]
            /\ conv_xml_root = << >>
            /\ conv_result.xml = << >>
       ELSE /\ conv_result.error.text # "No valid data found in"
            /\ conv_xml_root # << >>

\* a file with two empty sheets, refused
C11_Witness ==
  /\ conv_pc = "done"
  /\ conv_file_content.SAD.ok /\ conv_file_content.SAD.rows = << >>
  /\ NothingExtracted
  /\ ~conv_result.success

\* the k-th smallest member of a set of positions
NthOf(S, k) == CHOOSE x \in S : Cardinality({y \in S : y <= x}) = k

\* the child elements of the element at position b
Children(doc, b) ==
  {j \in DOMAIN doc :
     /\ j > b
     /\ Len(doc[j].path) = Len(doc[b].path) + 1
     /\ \A i \in (b + 1)..j : Len(doc[i].path) > Len(doc[b].path)}

ChildrenTagged(doc, b, tag) == {j \in Children(doc, b) : LastTag(doc[j]) = tag}

SupplementaryUnitPath == ItemPath \o <<"Tariff", "Supplementary_unit">>

\* the positions of the n-th Item subtree, given the positions of all Item elements
ItemSpan(doc, starts, n) ==
  LET from == NthOf(starts, n)
  IN  from..(IF n < Cardinality(starts) THEN NthOf(starts, n + 1) - 1 ELSE Len(doc))

\* the Supplementary_unit blocks among these positions
SupplementaryUnits(doc, span) == {k \in span : doc[k].path = SupplementaryUnitPath}

\* slots 2 and 3: a rank element with the slot number and no code element
NumberedSlot(doc, b, rank) ==
  /\ Cardinality(ChildrenTagged(doc, b, "Supplementary_unit_rank")) = 1
  /\ \A j \in ChildrenTagged(doc, b, "Supplementary_unit_rank") : doc[j].text = rank
  /\ ChildrenTagged(doc, b, "Supplementary_unit_code") = {}

\* slot 1 has its code and name elements
FirstSlotCodeAndName(doc, b) ==
  /\ Cardinality(ChildrenTagged(doc, b, "Supplementary_unit_code")) = 1
  /\ Cardinality(ChildrenTagged(doc, b, "Supplementary_unit_name")) = 1

IsConversionEntry(entry) == entry.kind = "xml" \/ entry.report.prefix = "Conversion failed:"

\* the results of the conversions request r has run so far, in order
ConversionEntries(r) == SelectSeq(req[r].zip, IsConversionEntry)

\* the files request r hands to convert_excel_to_xml, in order
ConversionInputs(r) == SelectSeq(req[r].files, IsSpreadsheet)

Shape(doc) == [k \in DOMAIN doc |-> doc[k].path]

\* n item records without any column
BlankItems(n) == [k \in 1..n |-> << >>]

\* C14: the shape of the tree (tags, order, nesting) does not depend on the
\* header record or on the item records, only on the number of items: it is
\* the shape of the tree built from no header and as many blank item
\* records, and only leaves carry text.
C14_ShapeFixed ==
  Mapped =>
    /\ Shape(conv_xml_root) =
         Shape(create_asycuda_xml(<< >>, BlankItems(Len(conv_items_data)), ConvFilename))
    /\ \A k \in 1..(Len(conv_xml_root) - 1) :
         Len(conv_xml_root[k + 1].path) > Len(conv_xml_root[k].path) =>
           conv_xml_root[k].text = NoText

\* a tree built from a header and item rows that fill leaves with text
C14_Witness ==
  /\ Mapped
  /\ conv_sad_data # << >>
  /\ Len(conv_items_data) >= 2
  /\ \E n \in 1..Len(conv_items_data) : conv_items_data[n] # << >>
  /\ conv_xml_root #
       create_asycuda_xml(<< >>, BlankItems(Len(conv_items_data)), ConvFilename)

\* the text a leaf gets from a value: add_element leaves it out for "", nan, None
LeafText(value) == IF value \in AbsentValues THEN NoText ELSE value

\* the Item subtree at these positions carries, in each row-sourced leaf,
\* what the record gives
BuiltFrom(doc, span, record) ==
  \A l \in ItemLeaves :
    LET at == {k \in span : doc[k].path = l.path}
    IN  /\ Cardinality(at) = 1
        /\ \A k \in at : doc[k].text = LeafText(Get(record, l.column, l.default))

\* C15: there are as many Item subtrees as item records and the k-th subtree
\* is built from the k-th record: nothing dropped, duplicated or reordered.
C15_ItemOrderPreserved ==
  Mapped =>
    LET starts == At(conv_xml_root, ItemPath)
    IN  /\ Cardinality(starts) = Len(conv_items_data)
        /\ \A n \in 1..Len(conv_items_data) :
             BuiltFrom(conv_xml_root, ItemSpan(conv_xml_root, starts, n), conv_items_data[n])

\* two records that differ, each found in its own subtree and not in the other's
C15_Witness ==
  /\ Mapped
  /\ Len(conv_items_data) >= 2
  /\ LET starts == At(conv_xml_root, ItemPath)
         first == ItemSpan(conv_xml_root, starts, 1)
         second == ItemSpan(conv_xml_root, starts, 2)
     IN  /\ BuiltFrom(conv_xml_root, first, conv_items_data[1])
         /\ BuiltFrom(conv_xml_root, second, conv_items_data[2])
         /\ ~BuiltFrom(conv_xml_root, first, conv_items_data[2])
         /\ ~BuiltFrom(conv_xml_root, second, conv_items_data[1])

(***************************************************************************)
(* Properties of the progress table.                                       *)
(***************************************************************************)
\* C16: a poll for a session that has no entry is answered with the default
\* snapshot (all counters 0, 'No active session', 'Session not found'), and
\* no poll creates or changes an entry of the table.
C16_PollWithoutEntry ==
  [][\A session_id \in SessionIds :
       polled'.session_id = session_id =>
         /\ conversion_progress' = conversion_progress
         /\ session_id \notin DOMAIN conversion_progress => polled'.progress = SessionNotFound
         /\ session_id \in DOMAIN conversion_progress =>
              polled'.progress = conversion_progress[session_id]]_vars

\* a poll answered with the default although another session has an entry
C16_Witness ==
  /\ polled.session_id \in SessionIds
  /\ polled.session_id \notin DOMAIN conversion_progress
  /\ polled.progress = SessionNotFound
  /\ DOMAIN conversion_progress # {}

\* request r has returned its package and its cleanup thread is still asleep
AwaitingCleanup(r) == req[r].response = "zip" /\ cleanup[r] = "sleeping"

\* the entry of r's session is there with the final snapshot
FinalSnapshotPresent(r) ==
  /\ req[r].session_id \in DOMAIN conversion_progress
  /\ conversion_progress[req[r].session_id].percent = Percent(100, 1)

\* C17: after a batch has completed, its session's entry stays in the table
\* with the final snapshot (percent 100) until the delay elapses; it is then
\* eventually removed; every later poll of that session gets the default
\* snapshot; and no entry stays in the table forever.
C17_TornDownAfterDelay ==
  /\ [](\A r \in Requests : AwaitingCleanup(r) => FinalSnapshotPresent(r))
  /\ \A r \in Requests :
       AwaitingCleanup(r) ~> (cleanup[r] = "done" /\ req[r].session_id \notin DOMAIN conversion_progress)
  /\ [](\A r \in Requests :
          (cleanup[r] = "done" /\ polled.session_id = req[r].session_id) =>
            polled.progress = SessionNotFound)
  /\ \A session_id \in SessionIds :
       (session_id \in DOMAIN conversion_progress) ~> (session_id \notin DOMAIN conversion_progress)

\* C18: the loss of a session's progress entry never makes a batch fail: no
\* request that passed validation is answered with an error response, and a
\* finished batch has run the conversion of every spreadsheet it was given.
C18_ProgressLossHarmless ==
  \A r \in Requests :
    /\ req[r].response # "500"
    /\ req[r].pc # "outer_except"
    /\ req[r].pc = "done" => Len(ConversionEntries(r)) = Len(ConversionInputs(r))

\* no other request that reached the table uses r's session id
OwnSession(r) ==
  \A q \in Requests \ {r} :
    req[q].pc \in {"idle", "rejected"} \/ req[q].session_id # req[r].session_id

IsXmlEntry(entry) == entry.kind = "xml"

IsErrorEntry(entry) == entry.kind = "error"

Started(r) == req[r].pc \notin {"idle", "rejected"}

\* 0 <= percent <= 100
PercentInRange(percent) == 0 <= percent.n /\ percent.n <= 100 * percent.d

\* C20: in every state the snapshot of each batch's session has total equal
\* to the number of files submitted in the batch and percent within 0..100,
\* and percent is 100 once the batch has made its final update.
C20_SnapshotOfBatch ==
  \A r \in Requests :
    (Started(r) /\ req[r].session_id \in DOMAIN conversion_progress) =>
      LET progress == conversion_progress[req[r].session_id]
      IN  /\ progress.total = Len(req[r].files)
          /\ PercentInRange(progress.percent)
          /\ req[r].pc = "done" => progress.percent = Percent(100, 1)

(***************************************************************************)
(* Properties of the item and header mapping, continued.                   *)
(***************************************************************************)
\* among these positions there is one element with this path, with this text
LeafIs(doc, span, path, text) ==
  LET at == {k \in span : doc[k].path = path}
  IN  Cardinality(at) = 1 /\ \A k \in at : doc[k].text = text

ItemValuationPath == ItemPath \o <<"Valuation_item">>

NationalAmount(block) == ItemValuationPath \o <<block, "Amount_national_currency">>

ForeignAmount(block) == ItemValuationPath \o <<block, "Amount_foreign_currency">>

\* the sub-blocks that repeat the shipment constants, with their keys
ShipmentCosts ==
  { [block |-> "External_freight", national |-> "external_freight_national",
     foreign |-> "external_freight_foreign"],
    [block |-> "Insurance", national |-> "insurance_national", foreign |-> "insurance_foreign"],
    [block |-> "Other_cost", national |-> "other_cost_national", foreign |-> "other_cost_foreign"] }

\* C21: in every item's valuation block the Invoice foreign amount is the
\* item's own row value; External_freight, Insurance and Other_cost carry
\* the shipment constants whatever the row; Internal_freight and Deduction
\* carry only fixed zero or blank amounts.
C21_ItemValuation ==
  Mapped =>
    LET starts == At(conv_xml_root, ItemPath)
    IN  \A n \in 1..Len(conv_items_data) :
          LET span == ItemSpan(conv_xml_root, starts, n)
          IN  /\ LeafIs(conv_xml_root, span, ForeignAmount("Invoice"),
                        LeafText(Get(conv_items_data[n], InvoiceColumn, EmptyStr)))
              /\ \A c \in ShipmentCosts :
                   /\ LeafIs(conv_xml_root, span, NationalAmount(c.block), CONSIGNMENT_VALUES[c.national])
                   /\ LeafIs(conv_xml_root, span, ForeignAmount(c.block), CONSIGNMENT_VALUES[c.foreign])
              /\ LeafIs(conv_xml_root, span, NationalAmount("Internal_freight"), <<"0">>)
              /\ LeafIs(conv_xml_root, span, ForeignAmount("Internal_freight"), NoText)
              /\ LeafIs(conv_xml_root, span, NationalAmount("Deduction"), <<"0">>)
              /\ LeafIs(conv_xml_root, span, ForeignAmount("Deduction"), <<"0">>)

\* two items with different row amounts, each in its Invoice sub-block, and
\* the same external freight on both
C21_Witness ==
  /\ Mapped
  /\ Len(conv_items_data) >= 2
  /\ InvoiceColumn \in DOMAIN conv_items_data[1]
  /\ conv_items_data[1][InvoiceColumn] \notin AbsentValues
  /\ Get(conv_items_data[2], InvoiceColumn, EmptyStr) # conv_items_data[1][InvoiceColumn]
  /\ LET starts == At(conv_xml_root, ItemPath)
     IN  /\ LeafIs(conv_xml_root, ItemSpan(conv_xml_root, starts, 1), ForeignAmount("Invoice"),
                   conv_items_data[1][InvoiceColumn])
         /\ \A n \in 1..2 :
              LeafIs(conv_xml_root, ItemSpan(conv_xml_root, starts, n), ForeignAmount("External_freight"),
                     CONSIGNMENT_VALUES["external_freight_foreign"])

TaxationPath == ItemPath \o <<"Taxation">>

TaxationLinePath == TaxationPath \o <<"Taxation_line">>

\* the nested Taxation_line: code "IR", the constants for base, rate and
\* amount, and mode of payment "1"
TaxationLine(doc, span) ==
  /\ LeafIs(doc, span, TaxationLinePath \o <<"Duty_tax_code">>, <<"I","R">>)
  /\ LeafIs(doc, span, TaxationLinePath \o <<"Duty_tax_base">>, CONSIGNMENT_VALUES["duty_tax_base"])
  /\ LeafIs(doc, span, TaxationLinePath \o <<"Duty_tax_rate">>, CONSIGNMENT_VALUES["duty_tax_rate"])
  /\ LeafIs(doc, span, TaxationLinePath \o <<"Duty_tax_amount">>, CONSIGNMENT_VALUES["duty_tax_amount"])
  /\ LeafIs(doc, span, TaxationLinePath \o <<"Duty_tax_MP">>, <<"1">>)

C23_PolledCountersOrdered ==
  polled.session_id \in SessionIds =>
    /\ polled.progress.successful + polled.progress.errors <= polled.progress.processed
    /\ polled.progress.processed <= polled.progress.total

\* C24: once a batch has made its final update, its session's processed
\* equals total and successful + errors equals total, whatever the names of
\* the submitted files.
C24_FinalCountersComplete ==
  \A r \in Requests :
    (AwaitingCleanup(r) /\ req[r].session_id \in DOMAIN conversion_progress) =>
      LET progress == conversion_progress[req[r].session_id]
      IN  /\ progress.processed = progress.total
          /\ progress.successful + progress.errors = progress.total

\* p <= q for two percentages
PercentLeq(p, q) == p.n * q.d <= q.n * p.d

\* request r is between its initialisation and its final update, alone on its session id
RunningAlone(r) ==
  /\ req[r].pc \in {"loop", "convert", "inner_except", "processed"}
  /\ OwnSession(r)
  /\ req[r].session_id \in DOMAIN conversion_progress

\* C25: within one batch whose session id no other batch uses, percent and
\* processed never decrease from one progress update to the next, from the
\* initialisation up to the final update.
C25_ProgressMonotone ==
  [][\A r \in Requests :
       (RunningAlone(r) /\ OwnSession(r)' /\ req[r].session_id \in DOMAIN conversion_progress') =>
         /\ conversion_progress[req[r].session_id].processed
              <= conversion_progress'[req[r].session_id].processed
         /\ PercentLeq(conversion_progress[req[r].session_id].percent,
                       conversion_progress'[req[r].session_id].percent)]_vars

\* a batch alone on its session id that has gone through two files' updates
C25_Witness ==
  \E r \in Requests :
    /\ RunningAlone(r)
    /\ Len(req[r].files) >= 2
    /\ req[r].pc = "convert"
    /\ conversion_progress[req[r].session_id].processed >= 1
    /\ conversion_progress[req[r].session_id].percent # Percent(0, 1)

\* the files of request r have pairwise distinct names
DistinctNames(r) ==
  \A i, j \in DOMAIN req[r].files : i # j => req[r].files[i].filename # req[r].files[j].filename

\* C26: within one batch, submitted files with pairwise distinct names produce
\* package entries with pairwise distinct names, so that no file's result
\* shadows another's (a.xlsx and a.xls do not map to the same entry name).
C26_EntryNamesDistinct ==
  \A r \in Requests :
    DistinctNames(r) =>
      \A i, j \in DOMAIN req[r].zip : i # j => req[r].zip[i].name # req[r].zip[j].name

FinancialTransactionPath == <<"ASYCUDA", "SAD", "Financial", "Financial_transaction">>

Code1Column == "Financial_transaction Code_1"

Code2Column == "Financial_transaction Code_2"

\* the record without this column
Without(row, column) == [c \in DOMAIN row \ {column} |-> row[c]]

\* C27: the Code_2 leaf of Financial_transaction has the same value as the
\* Code_1 leaf: both come from the header column 'Financial_transaction Code_1'
\* (default "1"), and a header column 'Financial_transaction Code_2' has no
\* effect on the document.
C27_Code2FollowsCode1 ==
  Mapped =>
    LET code_1 == At(conv_xml_root, FinancialTransactionPath \o <<"Code_1">>)
        code_2 == At(conv_xml_root, FinancialTransactionPath \o <<"Code_2">>)
    IN  /\ Cardinality(code_1) = 1
        /\ Cardinality(code_2) = 1
        /\ \A k1 \in code_1, k2 \in code_2 : conv_xml_root[k2].text = conv_xml_root[k1].text
        /\ (Code1Column \notin DOMAIN conv_sad_data \/ conv_sad_data[Code1Column] # EmptyStr) =>
             \A k2 \in code_2 :
               conv_xml_root[k2].text = LeafText(Get(conv_sad_data, Code1Column, <<"1">>))
        /\ Code2Column \in DOMAIN conv_sad_data =>
             conv_xml_root
               = create_asycuda_xml(Without(conv_sad_data, Code2Column), conv_items_data, ConvFilename)

\* a tree whose header gives different values in the two columns
C27_Witness ==
  /\ Mapped
  /\ Code1Column \in DOMAIN conv_sad_data
  /\ Code2Column \in DOMAIN conv_sad_data
  /\ conv_sad_data[Code1Column] = <<"2">>
  /\ conv_sad_data[Code2Column] = <<"3">>
  /\ \E k \in At(conv_xml_root, FinancialTransactionPath \o <<"Code_2">>) :
       conv_xml_root[k].text = <<"2">>

ItemsPath == <<"ASYCUDA", "Items">>

FormInvoiceForeignPath == <<"ASYCUDA", "SAD", "Valuation", "Invoice", "Amount_foreign_currency">>

\* the records read from the file are a non-empty header and no items
HeaderOnly == conv_pc \in {"mapped", "done"} /\ ~IsEmpty(conv_sad_data) /\ IsEmpty(conv_items_data)

\* C28: a file with a non-empty header record and no item records converts
\* successfully into a document whose Items container has no Item subtree,
\* whose Total_weight is "0", and whose declaration-level Invoice
\* Amount_foreign_currency is present with a zero value.
C28_HeaderOnlyConverts ==
  HeaderOnly =>
    /\ Cardinality(At(conv_xml_root, ItemsPath)) = 1
    /\ At(conv_xml_root, ItemPath) = {}
    /\ \A k \in At(conv_xml_root, ItemsPath) : k = Len(conv_xml_root)
    /\ Cardinality(At(conv_xml_root, TotalWeightPath)) = 1
    /\ \A k \in At(conv_xml_root, TotalWeightPath) : conv_xml_root[k].text = <<"0">>
    /\ Cardinality(At(conv_xml_root, FormInvoiceForeignPath)) = 1
    /\ \A k \in At(conv_xml_root, FormInvoiceForeignPath) : conv_xml_root[k].text = <<"0">>
    /\ conv_pc = "done" => conv_result.success

====
